---- MODULE Spec2Model ----
(***************************************************************************)
(* In-process travel agent system: the message router                      *)
(* (src/shared/protocols.py), the session state store                      *)
(* (src/shared/state.py), the agent run loop (src/shared/base_agent.py),   *)
(* the coordinator (src/agents/orchestrator/agent.py) and the lodging      *)
(* agent (src/agents/hotel/agent.py).                                      *)
(*                                                                         *)
(* asyncio runs one coroutine at a time and switches only at an await that *)
(* really suspends; the only suspending awaits of the modelled code are    *)
(* the wait for a response future in send_message, the wait on the inbound *)
(* queue and sleeps.  An action is therefore the code between two such     *)
(* suspensions.  The 30 second timer of send_message may fire whenever the *)
(* entry is pending: wait_for then cancels the response future, and        *)
(* send_message deletes the entry only when the event loop runs it again,  *)
(* so the timeout is two actions.                                          *)
(***************************************************************************)
EXTENDS Integers, Sequences, FiniteSets, TLC

\* ------------------------------------------------------------------ bounds
MaxMsgs == 5        \* message ids (uuid4 values) available in one run
MaxHotels == 2      \* hotels a search can return
MaxCalls == 2       \* send_message calls from outside the handlers in one run
Reserve == 2        \* ids one loop iteration may need (one send + one error response)
MaxRetryMsgs == 7   \* message ids available in the run of the repeated-rejection scenario

\* ------------------------------------------------------------ name spaces
Loops == {"orchestrator", "hotel"}      \* agents main.py constructs
Peers == {"budget", "itinerary"}        \* agents registered by the embedding program
RunAgents == Loops \cup Peers
Names == RunAgents \cup {"system", "activity", "transport", "user"}
SessionIds == {"s1"}
Ids == 1..MaxMsgs
AllIds == 1..MaxRetryMsgs
Hotels == 1..MaxHotels

TASK_ASSIGNMENT == "task_assignment"
BUDGET_VALIDATION == "budget_validation"
BUDGET_APPROVAL == "budget_approval"
BUDGET_REJECTION == "budget_rejection"
CONFLICT_ALERT == "conflict_alert"
STATUS_UPDATE == "status_update"
HUMAN_ESCALATION == "human_escalation"
MODIFICATION_REQUEST == "modification_request"
COMPLETION_NOTIFICATION == "completion_notification"

\* AgentMessage.content, abstracted: tag says which keys the content has or
\* which status it carries, arg is the number in it (hotel candidate, available
\* budget, original_message_id), text the error text.
Content(tag, arg, text) == [tag |-> tag, arg |-> arg, text |-> text]

\* An AgentMessage; rr is requires_response, corr is correlation_id (0 for None).
Msg(id, sender, recipient, session, type, rr, corr, content) ==
    [id |-> id, sender |-> sender, recipient |-> recipient, session |-> session,
     type |-> type, rr |-> rr, corr |-> corr, content |-> content]

NoMsg == Msg(0, "", "", "", "", FALSE, 0, Content("", 0, ""))

VARIABLES
    agents,             \* MessageRouter.agents (the registered names)
    message_log,        \* MessageRouter.message_log
    pending_responses,  \* MessageRouter.pending_responses (keys)
    cancelled,          \* the keys of pending_responses whose future the timeout has cancelled
    message_queue,      \* BaseAgent.message_queue, per agent
    returned,           \* how the send_message call of each message id stands: "unsent", "waiting", "noresp", "response", "timeout", "raised"
    reply,              \* the response a send_message call returned
    next_id,            \* next fresh message id
    sessions,           \* StateManager: session id -> state or Absent; cached: held in StateManager.active_sessions
    checkpoints,        \* StateManager.checkpointer: session id -> the state last put, or Absent
    system_session,     \* whether get_state("system") finds a session
    active_sessions,    \* OrchestratorAgent.active_sessions
    pending_bookings,   \* HotelAgent.pending_bookings
    running,            \* BaseAgent.running
    pc,                 \* position of each agent's run() task
    current,            \* message the run loop is processing
    cont,               \* where the handler continues after its await
    awaiting,           \* response futures the handler is suspended on
    failed,             \* history: messages whose process_message raised, with the error text
    processed,          \* history: ids of the messages process_message was called for and has finished
    responses,          \* history: the send_response calls made: the id, the response, whether the id was pending
    calls,              \* history: number of send_message calls made from outside the handlers
    rate_limits,        \* SecurityManager.rate_limits: client id -> {minute key: count}
    now,                \* datetime.now(), in ticks
    rate_calls,         \* history: the check_rate_limit calls each client made in the current minute
    budget_tracker,     \* BUDGET_TRACKER of the budget agent: session id -> total_budget, spent
    launcher,           \* AgentLauncher: its phase, processes (in dict order), which are alive, the position of the stop loop, the signals sent
    call,               \* the call of a function of the tools under check: its name and arguments
    call_result,        \* what that call returned or raised
    finalized,          \* history: the statuses handed to finalize_session, per session, in call order
    added,              \* history: the add_booking calls that reached their append, in order
    stop_pc,            \* position of each agent's stop() call: "none", "awaiting", "returned", "raised"
    approvals           \* per caller of the budget tools: the amount validate_expense approved and it has not recorded yet

vars == <<agents, message_log, pending_responses, cancelled, message_queue, returned, reply,
          next_id, sessions, checkpoints, system_session, active_sessions, pending_bookings,
          running, pc, current, cont, awaiting, failed, processed,
          responses, calls, rate_limits, now, rate_calls,
          budget_tracker, launcher, call, call_result, finalized, added, stop_pc,
          approvals>>

\* ------------------------------------------------------------ state record
\* The code between two suspensions is sequential; it is written as operators
\* from a state record to a state record, and an action commits the result.
\* exc is the exception in flight ("" when none), ret the handler's return value.
Cur ==
    [agents |-> agents, message_log |-> message_log,
     pending_responses |-> pending_responses, cancelled |-> cancelled,
     message_queue |-> message_queue,
     returned |-> returned, reply |-> reply, next_id |-> next_id,
     sessions |-> sessions, checkpoints |-> checkpoints,
     system_session |-> system_session,
     active_sessions |-> active_sessions, pending_bookings |-> pending_bookings,
     running |-> running, pc |-> pc, current |-> current, cont |-> cont,
     awaiting |-> awaiting, failed |-> failed, processed |-> processed,
     responses |-> responses, calls |-> calls, rate_limits |-> rate_limits, now |-> now,
     rate_calls |-> rate_calls, budget_tracker |-> budget_tracker,
     launcher |-> launcher, call |-> call, call_result |-> call_result,
     finalized |-> finalized, added |-> added,
     stop_pc |-> stop_pc, approvals |-> approvals,
     exc |-> "", ret |-> NoMsg]

Commit(S) ==
    /\ agents' = S.agents
    /\ message_log' = S.message_log
    /\ pending_responses' = S.pending_responses
    /\ cancelled' = S.cancelled
    /\ message_queue' = S.message_queue
    /\ returned' = S.returned
    /\ reply' = S.reply
    /\ next_id' = S.next_id
    /\ sessions' = S.sessions
    /\ checkpoints' = S.checkpoints
    /\ system_session' = S.system_session
    /\ active_sessions' = S.active_sessions
    /\ pending_bookings' = S.pending_bookings
    /\ running' = S.running
    /\ pc' = S.pc
    /\ current' = S.current
    /\ cont' = S.cont
    /\ awaiting' = S.awaiting
    /\ failed' = S.failed
    /\ processed' = S.processed
    /\ responses' = S.responses
    /\ calls' = S.calls
    /\ rate_limits' = S.rate_limits
    /\ now' = S.now
    /\ rate_calls' = S.rate_calls
    /\ budget_tracker' = S.budget_tracker
    /\ launcher' = S.launcher
    /\ call' = S.call
    /\ call_result' = S.call_result
    /\ finalized' = S.finalized
    /\ added' = S.added
    /\ stop_pc' = S.stop_pc
    /\ approvals' = S.approvals

Raise(S, e) == [S EXCEPT !.exc = e]
Return(S, r) == [S EXCEPT !.ret = r]
Caught(S) == [S EXCEPT !.exc = ""]
Bump(S) == [S EXCEPT !.next_id = @ + 1]

\* ------------------------------------------------------------ StateManager
BookingTypes == {"hotels", "transport", "activities"}
ListKeys == {"conflicts", "error_log", "conversation_history"}
DictKeys == {"bookings"}

\* create_session: the initial TravelState (cached: held in active_sessions).
InitialState ==
    [exists |-> TRUE, cached |-> TRUE, status |-> "planning",
     human_approval_needed |-> FALSE, budget_spent |-> 0,
     bookings |-> [t \in BookingTypes |-> <<>>],
     conflicts |-> <<>>, error_log |-> <<>>]

Absent ==
    [exists |-> FALSE, cached |-> FALSE, status |-> "",
     human_approval_needed |-> FALSE, budget_spent |-> 0,
     bookings |-> [t \in BookingTypes |-> <<>>],
     conflicts |-> <<>>, error_log |-> <<>>]

\* get_state finds a session: in the cache or in the checkpoint.
SessionFound(S, s) ==
    s \in SessionIds /\ (S.sessions[s].cached \/ S.checkpoints[s].exists)

\* checkpointer.put: the state as the checkpoint keeps it
Put(state) == [state EXCEPT !.cached = FALSE]

\* get_state: the cached state if there is one; otherwise the checkpoint's
\* state, which re-populates the cache.
GetState(S, s) ==
    IF ~SessionFound(S, s) \/ S.sessions[s].cached THEN S
    ELSE [S EXCEPT !.sessions[s] = [S.checkpoints[s] EXCEPT !.cached = TRUE]]

\* the state a get_state(s) issued now would return
State(s) == GetState(Cur, s).sessions[s]

\* update_state for one key: a dict value is merged into a dict, a list value
\* is appended to a list (extend), anything else replaces; then the state is
\* checkpointed and cached.
UpdateState(S, s, key, value) ==
    IF ~SessionFound(S, s) THEN Raise(S, "ValueError: Session not found")
    ELSE LET S0 == GetState(S, s)
             old == S0.sessions[s][key]
             new == IF key \in ListKeys THEN old \o value
                    ELSE IF key \in DictKeys
                         THEN [t \in DOMAIN old \cup DOMAIN value |->
                                  IF t \in DOMAIN value THEN value[t] ELSE old[t]]
                         ELSE value
             state == [S0.sessions[s] EXCEPT ![key] = new]
         IN [S0 EXCEPT !.sessions[s] = state, !.checkpoints[s] = Put(state)]

\* update_agent_status: only its failure on an unknown session is modelled.
UpdateStatus(S, s) ==
    IF s = "system"
    THEN (IF S.system_session THEN S ELSE Raise(S, "ValueError: Session not found"))
    ELSE IF SessionFound(S, s) THEN GetState(S, s)
         ELSE Raise(S, "ValueError: Session not found")

Booking(cand, cost) == [cand |-> cand, total_cost |-> cost]

\* a cost that reads the "cost" key only
BookingCostKeyOnly(booking) ==
    IF "cost" \in DOMAIN booking THEN booking.cost ELSE 0

\* booking.get("total_cost", booking.get("cost", 0))
BookingCost(booking) ==
    IF "total_cost" \in DOMAIN booking THEN booking.total_cost
    ELSE IF "cost" \in DOMAIN booking THEN booking.cost
    ELSE 0

\* add_booking: creates the list of a booking type the dict does not have,
\* appends to the state's own list and adds the cost, then hands the state's
\* own dict and number to update_state.
AddBooking(S, s, btype, booking) ==
    IF ~SessionFound(S, s) THEN Raise(S, "ValueError: Session not found")
    ELSE LET S0 == GetState(S, s)
             old == S0.sessions[s].bookings
             S1 == [S0 EXCEPT
                       !.sessions[s].bookings =
                           [t \in DOMAIN old \cup {btype} |->
                               IF t = btype
                               THEN Append(IF t \in DOMAIN old THEN old[t] ELSE <<>>, booking)
                               ELSE old[t]],
                       !.sessions[s].budget_spent = @ + BookingCost(booking),
                       !.added = Append(@, [session |-> s, type |-> btype, booking |-> booking])]
             S2 == UpdateState(S1, s, "bookings", S1.sessions[s].bookings)
         IN UpdateState(S2, s, "budget_spent", S2.sessions[s].budget_spent)

\* add_conflict: appends to the state's own list, then passes that same list
\* to update_state, which extends the list by it.
AddConflict(S, s, conflict) ==
    IF ~SessionFound(S, s) THEN Raise(S, "ValueError: Session not found")
    ELSE LET S1 == [GetState(S, s) EXCEPT !.sessions[s].conflicts = Append(@, conflict)]
         IN UpdateState(S1, s, "conflicts", S1.sessions[s].conflicts)

\* list.pop(index)
RemoveAt(q, i) == SubSeq(q, 1, i - 1) \o SubSeq(q, i + 1, Len(q))

\* StateManager.resolve_conflict: with an index inside the list, pops that
\* entry from the state's own list and passes that same list to update_state;
\* with any other index nothing is done. Python's index 0 is position 1.
StateResolveConflict(S, s, conflict_index) ==
    IF ~SessionFound(S, s) THEN Raise(S, "ValueError: Session not found")
    ELSE LET S0 == GetState(S, s)
         IN IF 0 <= conflict_index /\ conflict_index < Len(S0.sessions[s].conflicts)
            THEN LET S1 == [S0 EXCEPT !.sessions[s].conflicts = RemoveAt(@, conflict_index + 1)]
                 IN UpdateState(S1, s, "conflicts", S1.sessions[s].conflicts)
            ELSE S0

\* StateManager.request_human_approval
StateRequestHumanApproval(S, s) ==
    LET S1 == UpdateState(S, s, "human_approval_needed", TRUE)
    IN IF S1.exc # "" THEN S1 ELSE UpdateState(S1, s, "status", "awaiting_human_approval")

\* a finalize_session that writes the status to the cached state only
FinalizeSessionCacheOnly(S, s, status) ==
    LET S0 == [S EXCEPT !.finalized[s] = Append(@, status)]
    IN IF ~SessionFound(S0, s) THEN Raise(S0, "ValueError: Session not found")
       ELSE [GetState(S0, s) EXCEPT !.sessions[s] = Absent]

\* finalize_session: update_state sets the status (checkpointing it), then
\* the session is deleted from the cache.
FinalizeSession(S, s, status) ==
    LET S0 == [S EXCEPT !.finalized[s] = Append(@, status)]
        S1 == UpdateState(S0, s, "status", status)
    IN IF S1.exc # "" THEN S1 ELSE [S1 EXCEPT !.sessions[s] = Absent]

\* BaseAgent.handle_error: appends an entry to the state's own error_log and
\* passes that same list to update_state.
HandleError(S, a, e, s) ==
    IF ~SessionFound(S, s) THEN S
    ELSE LET S1 == [GetState(S, s) EXCEPT
                       !.sessions[s].error_log = Append(@, [agent |-> a, error |-> e])]
         IN UpdateState(S1, s, "error_log", S1.sessions[s].error_log)

\* ------------------------------------------------------------ MessageRouter
\* a send_message that creates the response future before it looks the
\* recipient up
SendMessageFutureFirst(S, m) ==
    LET S1 == [S EXCEPT !.message_log = Append(@, m),
                        !.pending_responses = IF m.rr THEN @ \cup {m.id} ELSE @]
    IN IF m.recipient \notin S.agents
       THEN [Raise(S1, "ValueError: Unknown recipient") EXCEPT !.returned[m.id] = "raised"]
       ELSE [S1 EXCEPT
                !.message_queue[m.recipient] = Append(@, m),
                !.returned[m.id] = IF m.rr THEN "waiting" ELSE "noresp"]

\* send_message up to its wait: log, reject an unknown recipient, create the
\* response future, hand the message to the recipient's queue.
SendMessage(S, m) ==
    LET S1 == [S EXCEPT !.message_log = Append(@, m)]
    IN IF m.recipient \notin S.agents
       THEN [Raise(S1, "ValueError: Unknown recipient") EXCEPT !.returned[m.id] = "raised"]
       ELSE [S1 EXCEPT
                !.pending_responses = IF m.rr THEN @ \cup {m.id} ELSE @,
                !.message_queue[m.recipient] = Append(@, m),
                !.returned[m.id] = IF m.rr THEN "waiting" ELSE "noresp"]

\* send_response: resolve the pending future, else route as a message.
\* set_result on a future that the timeout has cancelled raises
\* InvalidStateError, and the entry is left to the caller that is timing out.
SendResponse(S, id, r) ==
    IF id \in S.pending_responses
    THEN IF id \in S.cancelled
         THEN Raise(S, "InvalidStateError: invalid state")
         ELSE [S EXCEPT !.pending_responses = @ \ {id},
                        !.returned[id] = "response",
                        !.reply[id] = r]
    ELSE SendMessage(S, r)

\* wait_for reaches its timeout: it cancels the response future; send_message
\* itself goes on only when the event loop runs it again
CancelFuture(S, id) == [S EXCEPT !.cancelled = @ \cup {id}]

\* a timer that returns None and leaves the entry in pending_responses
TimeoutMessageKeepsEntry(S, id) ==
    [S EXCEPT !.returned[id] = "timeout"]

\* send_message's "except asyncio.TimeoutError": the entry is deleted, None
\* is returned.
TimeoutMessage(S, id) ==
    [S EXCEPT !.pending_responses = @ \ {id}, !.cancelled = @ \ {id},
              !.returned[id] = "timeout"]

\* an agent awaits its own send: it is suspended while the future is pending
AgentSend(S, a, m) ==
    LET S1 == SendMessage(Bump(S), m)
    IN IF S1.exc = "" /\ m.rr THEN [S1 EXCEPT !.awaiting[a] = @ \cup {m.id}] ELSE S1

AgentSendResponse(S, a, id, r) ==
    LET S0 == [Bump(S) EXCEPT !.responses = @ \cup
                  {[id |-> id, response |-> r, pending |-> id \in S.pending_responses,
                    cancelled |-> id \in S.cancelled]}]
        S1 == SendResponse(S0, id, r)
    IN IF S1.exc = "" /\ r.rr /\ id \notin S.pending_responses
       THEN [S1 EXCEPT !.awaiting[a] = @ \cup {r.id}] ELSE S1

Suspend(S, a, label) == [S EXCEPT !.cont[a] = label]
Suspended(S, a) == S.awaiting[a] # {}

\* ------------------------------------------------------------ MessageBuilder
\* create_task_assignment: content holds the keys task, deadline, priority;
\* requires_response keeps its default, true.
TaskAssignment(id, sender, recipient, s, arg) ==
    Msg(id, sender, recipient, s, TASK_ASSIGNMENT, TRUE, 0, Content("task", arg, ""))

BudgetValidationRequest(id, sender, s, cand, cost) ==
    Msg(id, sender, "budget", s, BUDGET_VALIDATION, TRUE, 0, Content("cost", cand, ""))

\* create_conflict_alert: conflict_details as given by the caller
ConflictAlert(id, sender, s, tag) ==
    Msg(id, sender, "orchestrator", s, CONFLICT_ALERT, TRUE, 0, Content(tag, 0, ""))

StatusUpdate(id, sender, recipient, s, status) ==
    Msg(id, sender, recipient, s, STATUS_UPDATE, FALSE, 0, Content(status, 0, ""))

HumanEscalation(id, sender, s, arg) ==
    Msg(id, sender, "orchestrator", s, HUMAN_ESCALATION, TRUE, 0, Content("escalation", arg, ""))

\* ------------------------------------------------------------ ConflictResolver
\* The conflict contents the model draws from:
\*   budget        type budget, affected_agents [hotel], one suggested resolution
\*   budget_empty  type budget, empty lists
\*   timing        type timing, description without late_arrival or overlap
\*   weather       a type with no strategy
\*   details       conflict_type, description, severity only (as report_conflict
\*                 is called by the lodging agent): not a valid ConflictInfo
ConflictTags == {"budget", "budget_empty", "timing", "weather", "details"}

ValidConflictInfo(tag) == tag \in {"budget", "budget_empty", "timing", "weather"}

\* A ConflictInfo: conflict_type, affected_agents, description (its words),
\* suggested_resolutions (each a dict, named here by a tag)
ConflictInfo(type, affected, description, resolutions) ==
    [conflict_type |-> type, affected_agents |-> affected, description |-> description,
     suggested_resolutions |-> resolutions]

\* str.lower on the words descriptions are made of
Lower(w) ==
    IF w = "Late_Arrival" THEN "late_arrival"
    ELSE IF w = "OVERLAP" THEN "overlap"
    ELSE IF w = "Distance" THEN "distance"
    ELSE w

\* "<word>" in conflict.description.lower()
InLowered(word, description) ==
    \E i \in DOMAIN description : Lower(description[i]) = word

IndexError == "IndexError: list index out of range"
Plan(exc, can, target, action) ==
    [exc |-> exc, can_resolve_automatically |-> can, requires_human |-> ~can,
     target |-> target, action |-> action]

\* _resolve_timing_conflict
ResolveTimingConflict(conflict) ==
    IF InLowered("late_arrival", conflict.description)
    THEN IF conflict.suggested_resolutions = <<>> THEN Plan(IndexError, FALSE, "", "")
         ELSE Plan("", TRUE, "hotel", "request_late_checkin")
    ELSE IF InLowered("overlap", conflict.description)
    THEN IF conflict.suggested_resolutions = <<>> THEN Plan(IndexError, FALSE, "", "")
         ELSE Plan("", TRUE, "activity", "reschedule")
    ELSE Plan("", FALSE, "", "")

\* _resolve_budget_conflict
ResolveBudgetConflict(conflict) ==
    IF conflict.affected_agents = <<>> \/ conflict.suggested_resolutions = <<>>
    THEN Plan(IndexError, FALSE, "", "")
    ELSE Plan("", TRUE, Head(conflict.affected_agents), "find_cheaper_alternative")

\* _resolve_availability_conflict
ResolveAvailabilityConflict(conflict) ==
    IF conflict.affected_agents = <<>> \/ conflict.suggested_resolutions = <<>>
    THEN Plan(IndexError, FALSE, "", "")
    ELSE Plan("", TRUE, Head(conflict.affected_agents), "find_alternative")

\* _resolve_location_conflict
ResolveLocationConflict(conflict) ==
    IF InLowered("distance", conflict.description)
    THEN Plan("", TRUE, "activity", "find_closer_alternative")
    ELSE Plan("", FALSE, "", "")

\* ConflictResolver.resolve_conflict: the strategy of the conflict type, or
\* _default_resolution; an exception of the strategy leaves resolve_conflict
ResolutionPlan(conflict) ==
    IF conflict.conflict_type = "timing" THEN ResolveTimingConflict(conflict)
    ELSE IF conflict.conflict_type = "budget" THEN ResolveBudgetConflict(conflict)
    ELSE IF conflict.conflict_type = "availability" THEN ResolveAvailabilityConflict(conflict)
    ELSE IF conflict.conflict_type = "location" THEN ResolveLocationConflict(conflict)
    ELSE Plan("", FALSE, "", "")

\* the ConflictInfo behind each content the scenarios draw from
ConflictOfTag(tag) ==
    IF tag = "budget" THEN ConflictInfo("budget", <<"hotel">>, <<"over">>, <<"reduced_budget">>)
    ELSE IF tag = "budget_empty" THEN ConflictInfo("budget", <<>>, <<"over">>, <<>>)
    ELSE IF tag = "timing" THEN ConflictInfo("timing", <<"hotel">>, <<"clash">>, <<>>)
    ELSE ConflictInfo(tag, <<>>, <<>>, <<>>)

\* resolve_conflict: raises, or can_resolve_automatically and the instructed agent
ResolveConflict(tag) ==
    LET plan == ResolutionPlan(ConflictOfTag(tag))
    IN [raises |-> plan.exc, can |-> plan.can_resolve_automatically, target |-> plan.target]

\* ------------------------------------------------------------ SecurityManager
Clients == {"c1", "c2"}
TicksPerMinute == 2
EmptyDict == [k \in {} |-> 0]

\* now.strftime("%Y-%m-%d-%H-%M"): the minute the tick lies in
MinuteKey(t) == t \div TicksPerMinute

\* d[k] = v on a dict
Store(d, k, v) == [x \in DOMAIN d \cup {k} |-> IF x = k THEN v ELSE d[x]]

\* a check_rate_limit that rejects the call that reaches the limit
CheckRateLimitBelow(S, client_id, limit) ==
    LET minute_key == MinuteKey(S.now)
        buckets == IF client_id \in DOMAIN S.rate_limits THEN S.rate_limits[client_id]
                   ELSE EmptyDict
    IN IF minute_key \notin DOMAIN buckets
       THEN [S EXCEPT !.rate_limits = Store(@, client_id, Store(EmptyDict, minute_key, 1)),
                      !.call_result = [exc |-> "", allowed |-> TRUE]]
       ELSE [S EXCEPT !.rate_limits = Store(@, client_id, Store(buckets, minute_key, buckets[minute_key] + 1)),
                      !.call_result = [exc |-> "", allowed |-> buckets[minute_key] + 1 < limit]]

\* check_rate_limit: the first call of a client in a minute replaces the
\* client's dict by {minute_key: 1} and is allowed; a later one counts up and
\* is allowed while the count is at most the limit
CheckRateLimit(S, client_id, limit) ==
    LET minute_key == MinuteKey(S.now)
        buckets == IF client_id \in DOMAIN S.rate_limits THEN S.rate_limits[client_id]
                   ELSE EmptyDict
    IN IF minute_key \notin DOMAIN buckets
       THEN [S EXCEPT !.rate_limits = Store(@, client_id, Store(EmptyDict, minute_key, 1)),
                      !.call_result = [exc |-> "", allowed |-> TRUE]]
       ELSE [S EXCEPT !.rate_limits = Store(@, client_id, Store(buckets, minute_key, buckets[minute_key] + 1)),
                      !.call_result = [exc |-> "", allowed |-> buckets[minute_key] + 1 <= limit]]

\* ------------------------------------------------------------ budget agent
\* the budget a tracker entry is created with when validate_expense finds none
DefaultBudget == 5000

\* a caller of the budget tools that holds no approval it has yet to record
NoApproval == [has |-> FALSE, amount |-> 0]


\* BudgetAgentA2A.set_session_budget
SetSessionBudget(S, session_id, total_budget) ==
    [S EXCEPT !.budget_tracker =
        Store(@, session_id, [total_budget |-> total_budget, spent |-> 0])]

\* BudgetAgentA2A.record_expense
RecordExpense(S, session_id, amount) ==
    IF session_id \in DOMAIN S.budget_tracker
    THEN [S EXCEPT !.budget_tracker[session_id].spent = @ + amount]
    ELSE S

\* validate_expense: the tool has no session argument and reads the entry of
\* "default_session", creating it when absent; the category only produces a
\* warning text, which is left out; percentage_used divides by the total
ValidateExpense(S, amount) ==
    LET session_id == "default_session"
        S1 == IF session_id \in DOMAIN S.budget_tracker THEN S
              ELSE SetSessionBudget(S, session_id, DefaultBudget)
        budget_data == S1.budget_tracker[session_id]
        remaining == budget_data.total_budget - budget_data.spent
    IN IF amount > remaining
       THEN [S1 EXCEPT !.call_result =
                [exc |-> "", approved |-> FALSE, reason |-> "Insufficient budget",
                 remaining_budget |-> remaining]]
       ELSE IF budget_data.total_budget = 0
       THEN [S1 EXCEPT !.call_result =
                [exc |-> "ZeroDivisionError: float division by zero", approved |-> FALSE,
                 reason |-> "", remaining_budget |-> 0]]
       ELSE [S1 EXCEPT !.call_result =
                [exc |-> "", approved |-> TRUE, reason |-> "",
                 remaining_budget |-> remaining - amount]]

\* ------------------------------------------------------------ AgentLauncher
\* AGENTS, in the order of the dict, and the depends_on each entry declares
AgentsConfig == <<"hotel", "orchestrator">>
LaunchAgents == {AgentsConfig[i] : i \in DOMAIN AgentsConfig}
DependsOn(agent_id) == IF agent_id = "orchestrator" THEN {"hotel"} ELSE {}
HasDependsOn(agent_id) == agent_id = "orchestrator"
HasNoDependsOn(agent_id) == ~HasDependsOn(agent_id)

\* start_all_agents: the agents without depends_on are put into
\* self.processes first, then the agents with depends_on; up are the
\* processes that are running after their start
StartAllAgents(L, up) ==
    [L EXCEPT !.processes = SelectSeq(AgentsConfig, HasNoDependsOn)
                                \o SelectSeq(AgentsConfig, HasDependsOn),
              !.alive = [a \in LaunchAgents |-> a \in up],
              !.phase = "monitoring"]

\* the processes that are running
Running(L) == {a \in LaunchAgents : L.alive[a]}

\* a signal sent to a process, with the processes running at that moment
Signal(L, agent_id, sig) == [agent |-> agent_id, sig |-> sig, running |-> Running(L)]

\* stop_all_agents, one pass of its loop up to process.wait(timeout=5): a
\* process that is not running is passed over, a running one is sent terminate
StopNext(L) ==
    IF L.index > Len(L.processes) THEN [L EXCEPT !.phase = "stopped"]
    ELSE LET agent_id == L.processes[L.index]
         IN IF L.alive[agent_id]
            THEN [L EXCEPT !.signals = Append(@, Signal(L, agent_id, "terminate")),
                           !.phase = "waiting"]
            ELSE [L EXCEPT !.index = @ + 1]

\* the process exits within the 5 seconds
StopWaitExit(L) ==
    [L EXCEPT !.alive[L.processes[L.index]] = FALSE, !.index = @ + 1, !.phase = "stopping"]

\* subprocess.TimeoutExpired: the process is killed and waited for
StopWaitKill(L) ==
    [L EXCEPT !.signals = Append(@, Signal(L, L.processes[L.index], "kill")),
              !.alive[L.processes[L.index]] = FALSE, !.index = @ + 1, !.phase = "stopping"]

\* ------------------------------------------------------------ DependencyManager
\* a dependency graph in which the itinerary does not wait for the activities
DependencyGraphWithoutActivity(agent) ==
    IF agent = "activity" THEN {"hotel"}
    ELSE IF agent = "itinerary" THEN {"hotel", "transport"}
    ELSE {}

\* self.dependency_graph.get(agent, set())
DependencyGraph(agent) ==
    IF agent = "activity" THEN {"hotel"}
    ELSE IF agent = "itinerary" THEN {"hotel", "transport", "activity"}
    ELSE {}

\* validate_completion_order: walks the sequence with the set of the agents
\* seen so far; stops at the first agent whose dependencies are not all in it
ValidateCompletionOrder(completion_order) ==
    LET n == Len(completion_order)
        F[i \in 1..(n + 1)] ==
            IF i > n THEN [valid |-> TRUE, agent |-> "", missing |-> {}]
            ELSE LET agent == completion_order[i]
                     completed == {completion_order[j] : j \in 1..(i - 1)}
                     deps == DependencyGraph(agent)
                 IN IF ~(deps \subseteq completed)
                    THEN [valid |-> FALSE, agent |-> agent, missing |-> deps \ completed]
                    ELSE F[i + 1]
    IN F[1]

\* ------------------------------------------------------------ TaskAnalyzer
\* the keys of the dict analyze_request returns
AnalysisKeys == {"allocations", "priorities", "dependencies", "trip_characteristics"}

\* ------------------------------------------------------------ OrchestratorAgent
OrchAbsent ==
    [exists |-> FALSE, status |-> "", pending_conflicts |-> <<>>,
     human_approvals |-> <<>>, has_pending_agents |-> FALSE, pending_agents |-> <<>>]

\* initialize: a fresh tracking entry, without a pending_agents key
InitialOrchSession ==
    [exists |-> TRUE, status |-> "initializing", pending_conflicts |-> <<>>,
     human_approvals |-> <<>>, has_pending_agents |-> FALSE, pending_agents |-> <<>>]

OrchKnows(S, s) == s \in SessionIds /\ S.active_sessions[s].exists

\* self.active_sessions[session_id].get("pending_agents", [])
PendingAgents(S, s) ==
    IF S.active_sessions[s].has_pending_agents THEN S.active_sessions[s].pending_agents
    ELSE <<>>

InSeq(x, q) == \E i \in 1..Len(q) : q[i] = x

\* list.remove(x): removes the first occurrence
RemoveFirst(q, x) ==
    LET i == CHOOSE j \in 1..Len(q) : q[j] = x /\ \A k \in 1..(j-1) : q[k] # x
    IN SubSeq(q, 1, i-1) \o SubSeq(q, i+1, Len(q))

\* _handle_new_request up to the gather of its three sends
HandleNewRequest(S, m) ==
    LET s == m.session IN
    IF m.content.tag # "preferences" THEN Raise(S, "KeyError: 'preferences'")
    ELSE LET S1 == UpdateStatus([S EXCEPT !.active_sessions[s] = InitialOrchSession], s)
         IN IF S1.exc # "" THEN S1
            ELSE LET S2 == [S1 EXCEPT !.active_sessions[s].status = "distributing_tasks"]
                 IN IF "hotel_budget" \notin AnalysisKeys
                    THEN Raise(S2, "KeyError: 'hotel_budget'")
                    ELSE IF "transport_budget" \notin AnalysisKeys
                    THEN Raise(S2, "KeyError: 'transport_budget'")
                    ELSE LET B == AgentSend(S2, "orchestrator",
                                      TaskAssignment(S2.next_id, "orchestrator", "budget", s, 0))
                             H == AgentSend(Caught(B), "orchestrator",
                                      TaskAssignment(B.next_id, "orchestrator", "hotel", s, 0))
                             T == AgentSend(Caught(H), "orchestrator",
                                      TaskAssignment(H.next_id, "orchestrator", "transport", s, 0))
                         IN IF B.exc # "" THEN Raise(T, B.exc)
                            ELSE IF H.exc # "" THEN Raise(T, H.exc)
                            ELSE Suspend(T, "orchestrator", "tasks_distributed")

\* _handle_new_request after the gather
NewRequestDistributed(S, m) ==
    Return([S EXCEPT !.active_sessions[m.session].has_pending_agents = TRUE,
                     !.active_sessions[m.session].pending_agents = <<"activity", "itinerary">>],
           Msg(S.next_id, "orchestrator", m.sender, m.session, STATUS_UPDATE, TRUE, 0,
               Content("tasks_distributed", 0, "")))

\* _escalate_to_human up to the wait of request_human_approval's send: the
\* escalation message goes to "orchestrator", the sender itself
EscalateToHuman(S, a, s, arg, label) ==
    LET S1 == AgentSend(S, a, HumanEscalation(S.next_id, a, s, arg))
    IN IF S1.exc # "" THEN S1 ELSE Suspend(S1, a, label)

\* _handle_conflict up to its first wait
HandleConflict(S, m) ==
    LET s == m.session
        tag == m.content.tag
    IN IF ~ValidConflictInfo(tag) THEN Raise(S, "ValidationError: ConflictInfo")
       ELSE IF ~OrchKnows(S, s) THEN Raise(S, "KeyError: session_id")
       ELSE LET S1 == GetState([S EXCEPT !.active_sessions[s].pending_conflicts = Append(@, tag)], s)
                plan == ResolveConflict(tag)
            IN IF plan.raises # "" THEN Raise(S1, plan.raises)
               ELSE IF plan.can
                    THEN LET S2 == AgentSend(S1, "orchestrator",
                                     Msg(S1.next_id, "orchestrator", plan.target, s,
                                         MODIFICATION_REQUEST, TRUE, 0,
                                         Content("find_cheaper_alternative", 0, "")))
                         IN IF S2.exc # "" THEN S2
                            ELSE Suspend(S2, "orchestrator", "conflict_instructed")
                    ELSE EscalateToHuman(S1, "orchestrator", s, 0, "orch_escalated")

\* _handle_conflict after the gather of the resolution messages
ConflictInstructed(S, m) ==
    LET S1 == AddConflict(S, m.session, m.content.tag)
    IN IF S1.exc # "" THEN S1
       ELSE Return(S1, Msg(S1.next_id, "orchestrator", m.sender, m.session, STATUS_UPDATE,
                           TRUE, 0, Content("conflict_resolved", 0, "")))

\* an escalation that pauses the coordinator's own tracking but does not ask
\* the state manager for the approval
OrchEscalatedLocally(S, m) ==
    [S EXCEPT !.active_sessions[m.session].status = "awaiting_human_approval"]

\* BaseAgent.request_human_approval after its send returned, then the rest of
\* _escalate_to_human and of _handle_conflict
OrchEscalated(S, m) ==
    LET S1 == StateRequestHumanApproval(S, m.session)
    IN IF S1.exc # "" THEN S1
       ELSE [S1 EXCEPT !.active_sessions[m.session].status = "awaiting_human_approval"]

\* a completeness check that does not look at the transport bookings
CheckHotelBookingOnly(S, s) ==
    LET has_hotel == Len(GetState(S, s).sessions[s].bookings["hotels"]) > 0
        pending == PendingAgents(S, s)
        no_pending == \A i \in 1..Len(pending) : pending[i] = "itinerary"
    IN has_hotel /\ no_pending

\* _check_all_bookings_complete
CheckAllBookingsComplete(S, s) ==
    LET has_hotel == Len(GetState(S, s).sessions[s].bookings["hotels"]) > 0
        has_transport == Len(GetState(S, s).sessions[s].bookings["transport"]) > 0
        pending == PendingAgents(S, s)
        no_pending == \A i \in 1..Len(pending) : pending[i] = "itinerary"
    IN has_hotel /\ has_transport /\ no_pending

\* _trigger_itinerary_generation up to the wait of its send
TriggerItineraryGeneration(S, s) ==
    LET S1 == AgentSend(GetState(S, s), "orchestrator",
                        TaskAssignment(S.next_id, "orchestrator", "itinerary", s, 0))
    IN IF S1.exc # "" THEN S1 ELSE Suspend(S1, "orchestrator", "itinerary_sent")

\* _trigger_itinerary_generation after the send returned
ItinerarySent(S, m) ==
    LET s == m.session
    IN IF InSeq("itinerary", PendingAgents(S, s))
       THEN [S EXCEPT !.active_sessions[s].pending_agents = RemoveFirst(@, "itinerary")]
       ELSE S

\* _handle_status_update from the completeness check on
StatusUpdateCheck(S, m) ==
    LET s == m.session
    IN IF ~OrchKnows(S, s) THEN Raise(S, "KeyError: session_id")
       ELSE IF CheckAllBookingsComplete(GetState(S, s), s)
            THEN TriggerItineraryGeneration(S, s)
            ELSE GetState(S, s)

\* _handle_status_update after the activity task's send returned
ActivitySent(S, m) ==
    StatusUpdateCheck([S EXCEPT !.active_sessions[m.session].pending_agents =
                                     RemoveFirst(@, "activity")], m)

\* _handle_status_update up to its first wait
HandleStatusUpdate(S, m) ==
    LET s == m.session
        S1 == UpdateStatus(S, s)
    IN IF S1.exc # "" THEN S1
       ELSE IF m.content.tag = "booking_confirmed" /\ m.sender = "hotel"
            THEN IF ~OrchKnows(S1, s) THEN Raise(S1, "KeyError: session_id")
                 ELSE IF InSeq("activity", PendingAgents(S1, s))
                      THEN LET S2 == AgentSend(S1, "orchestrator",
                                        TaskAssignment(S1.next_id, "orchestrator", "activity", s, 0))
                           IN IF S2.exc # "" THEN S2
                              ELSE Suspend(S2, "orchestrator", "activity_sent")
                      ELSE StatusUpdateCheck(S1, m)
            ELSE StatusUpdateCheck(S1, m)

\* _handle_human_escalation
HandleHumanEscalation(S, m) ==
    LET s == m.session
    IN IF m.content.tag # "escalation" THEN Raise(S, "KeyError: 'reason'")
       ELSE IF ~OrchKnows(S, s) THEN Raise(S, "KeyError: session_id")
       ELSE StateRequestHumanApproval(
                [S EXCEPT !.active_sessions[s].human_approvals = Append(@, m.id)], s)

\* _handle_completion
HandleCompletion(S, m) ==
    IF m.sender = "itinerary"
    THEN LET S1 == FinalizeSession(S, m.session, "completed")
         IN IF S1.exc # "" THEN S1
            ELSE Return(S1, Msg(S1.next_id, "orchestrator", "user", m.session,
                                COMPLETION_NOTIFICATION, TRUE, 0, Content("trip_planned", 0, "")))
    ELSE S

\* OrchestratorAgent.process_message up to its first wait
OrchProcessMessage(S, m) ==
    IF m.type = TASK_ASSIGNMENT THEN HandleNewRequest(S, m)
    ELSE IF m.type = CONFLICT_ALERT THEN HandleConflict(S, m)
    ELSE IF m.type = STATUS_UPDATE THEN HandleStatusUpdate(S, m)
    ELSE IF m.type = HUMAN_ESCALATION THEN HandleHumanEscalation(S, m)
    ELSE IF m.type = COMPLETION_NOTIFICATION THEN HandleCompletion(S, m)
    ELSE S

\* OrchestratorAgent.process_message from the point it was suspended at
OrchContinue(S, m, label) ==
    IF label = "tasks_distributed" THEN NewRequestDistributed(S, m)
    ELSE IF label = "conflict_instructed" THEN ConflictInstructed(S, m)
    ELSE IF label = "orch_escalated" THEN OrchEscalated(S, m)
    ELSE IF label = "activity_sent" THEN ActivitySent(S, m)
    ELSE IF label = "itinerary_sent" THEN ItinerarySent(S, m)
    ELSE S

\* ------------------------------------------------------------ HotelAgent
\* total_price of a search result
Price(h) == 100 * h

\* ------------------------------------------------------- ProtocolValidator
\* the keys of a message content, by its tag: the contents MessageBuilder
\* makes, and contents a caller of AgentMessage(...) wrote by hand
ContentKeys(content) ==
    CASE content.tag \in {"cost", "negative_cost"} ->
             {"booking_type", "booking_details", "cost", "currency"}
      [] content.tag = "no_cost" -> {"booking_type", "booking_details", "currency"}
      [] content.tag = "task" -> {"task", "deadline", "priority"}
      [] content.tag = "escalation" -> {"reason", "context", "options", "timeout_seconds"}
      [] content.tag = "no_reason" -> {"context", "options"}
      [] content.tag = "no_options" -> {"reason", "context"}
      [] content.tag \in {"timing", "budget", "availability", "location"} ->
             {"conflict", "affected_agents", "severity"}
      [] content.tag = "no_affected_agents" -> {"conflict", "severity"}
      [] OTHER -> {"status", "details", "timestamp"}

\* content["cost"]
ContentCost(content) ==
    IF content.tag = "negative_cost" THEN 0 - Price(content.arg) ELSE Price(content.arg)

\* validate_message: (is_valid, error)
ValidateMessage(message) ==
    IF message.sender = "" \/ message.recipient = ""
    THEN [valid |-> FALSE, error |-> "Sender and recipient are required"]
    ELSE IF message.session = ""
    THEN [valid |-> FALSE, error |-> "Session ID is required"]
    ELSE IF message.type = BUDGET_VALIDATION /\ "cost" \notin ContentKeys(message.content)
    THEN [valid |-> FALSE, error |-> "Budget validation requires 'cost' field"]
    ELSE IF message.type = BUDGET_VALIDATION /\ ContentCost(message.content) < 0
    THEN [valid |-> FALSE, error |-> "Cost cannot be negative"]
    ELSE IF message.type = CONFLICT_ALERT
            /\ "affected_agents" \notin ContentKeys(message.content)
    THEN [valid |-> FALSE, error |-> "Conflict alert requires 'affected_agents' field"]
    ELSE IF message.type = HUMAN_ESCALATION
            /\ ("reason" \notin ContentKeys(message.content)
                \/ "options" \notin ContentKeys(message.content))
    THEN [valid |-> FALSE,
          error |-> "Human escalation requires 'reason' and 'options' fields"]
    ELSE [valid |-> TRUE, error |-> ""]

\* what search and rank_hotels can return: the found hotels in rank order (the
\* rank depends on a random location score, so any order)
SearchOutcomes ==
    {q \in UNION {[1..n -> Hotels] : n \in 0..MaxHotels} :
        \A i, j \in DOMAIN q : i # j => q[i] # q[j]}

Min(x, y) == IF x < y THEN x ELSE y

NoPending == [exists |-> FALSE, booking |-> 0, alternatives |-> <<>>]

\* ranked_hotels[1:5]
Alternatives(ranked) == SubSeq(ranked, 2, Min(Len(ranked), 5))

\* Select(q, P) for sequences: [x for x in q if x.total_price <= budget]
RECURSIVE Affordable(_, _)
Affordable(q, budget) ==
    IF q = <<>> THEN <<>>
    ELSE IF Price(Head(q)) <= budget THEN <<Head(q)>> \o Affordable(Tail(q), budget)
         ELSE Affordable(Tail(q), budget)

\* _handle_task_assignment up to its wait; ranked is the search outcome
HotelTaskAssignment(S, m, ranked) ==
    LET s == m.session IN
    IF m.content.tag # "task_details" THEN Raise(S, "KeyError: 'task_details'")
    ELSE LET S0 == UpdateStatus(S, s)
         IN IF S0.exc # "" THEN S0
            ELSE IF ranked = <<>>
            THEN LET S1 == AgentSend(S0, "hotel", ConflictAlert(S0.next_id, "hotel", s, "details"))
                 IN IF S1.exc # "" THEN Caught(HandleError(S1, "hotel", S1.exc, s))
                    ELSE Suspend(S1, "hotel", "conflict_reported")
            ELSE LET S1 == [S0 EXCEPT !.pending_bookings[s] =
                                [exists |-> TRUE, booking |-> Head(ranked),
                                 alternatives |-> Alternatives(ranked)]]
                     S2 == AgentSend(S1, "hotel",
                               BudgetValidationRequest(S1.next_id, "hotel", s, Head(ranked),
                                                       Price(Head(ranked))))
                 IN IF S2.exc # "" THEN Caught(HandleError(S2, "hotel", S2.exc, s))
                    ELSE Suspend(S2, "hotel", "validation_requested")

\* _handle_task_assignment after the budget request's send returned
ValidationRequested(S, m) ==
    Return(UpdateStatus(S, m.session),
           StatusUpdate(S.next_id, "hotel", m.sender, m.session, "hotels_found"))

\* _handle_budget_approval (_confirm_booking always succeeds)
HotelBudgetApproval(S, m) ==
    LET s == m.session IN
    IF ~S.pending_bookings[s].exists THEN S
    ELSE LET cand == S.pending_bookings[s].booking
             S1 == AddBooking(UpdateStatus(S, s), s, "hotels", Booking(cand, Price(cand)))
         IN IF S1.exc # "" THEN Caught(HandleError(S1, "hotel", S1.exc, s))
            ELSE LET S2 == [S1 EXCEPT !.pending_bookings[s] = NoPending]
                     S3 == AgentSend(S2, "hotel",
                               StatusUpdate(S2.next_id, "hotel", "orchestrator", s, "booking_confirmed"))
                 IN IF S3.exc # "" THEN Caught(HandleError(S3, "hotel", S3.exc, s))
                    ELSE Return(S3, StatusUpdate(S3.next_id, "hotel", m.sender, s, "booking_confirmed"))

\* _handle_budget_rejection up to its wait
HotelBudgetRejection(S, m) ==
    LET s == m.session
        available_budget == m.content.arg
    IN IF ~S.pending_bookings[s].exists THEN S
       ELSE LET alternatives == S.pending_bookings[s].alternatives
                affordable_options == Affordable(alternatives, available_budget)
            IN IF affordable_options # <<>>
               THEN LET new_selection == Head(affordable_options)
                        S1 == [S EXCEPT !.pending_bookings[s].booking = new_selection]
                        S2 == AgentSend(S1, "hotel",
                                 BudgetValidationRequest(S1.next_id, "hotel", s, new_selection,
                                                         Price(new_selection)))
                    IN IF S2.exc # "" THEN S2 ELSE Suspend(S2, "hotel", "retry_requested")
               ELSE IF alternatives = <<>>
                    THEN Raise(S, "IndexError: list index out of range")
                    ELSE EscalateToHuman(S, "hotel", s,
                                         Price(Head(alternatives)) - available_budget,
                                         "hotel_escalated")

\* BaseAgent.request_human_approval after its send returned
HotelEscalated(S, m) == StateRequestHumanApproval(S, m.session)

\* HotelValidator.validate_checkin_time, on the hour of the arrival time; no
\* code of the repository calls it
ValidateCheckinTime(arrival_hour) ==
    IF arrival_hour > 15 + 6
    THEN [valid |-> FALSE, error |-> "Arrival too late for standard check-in"]
    ELSE [valid |-> TRUE, error |-> ""]

\* _request_late_checkin
RequestLateCheckin(arrival_hour) == TRUE

\* _handle_modification_request; content.arg is the hour of arrival_time
HotelModificationRequest(S, m) ==
    LET s == m.session IN
    IF m.content.tag = "request_late_checkin"
    THEN IF ~SessionFound(S, s) THEN Raise(S, "TypeError: NoneType")
         ELSE IF Len(GetState(S, s).sessions[s].bookings["hotels"]) > 0
                 /\ RequestLateCheckin(m.content.arg)
              THEN Return(GetState(S, s),
                          StatusUpdate(S.next_id, "hotel", m.sender, s, "modification_confirmed"))
              ELSE GetState(S, s)
    ELSE S

\* HotelAgent.process_message up to its first wait
HotelProcessMessage(S, m, ranked) ==
    IF m.type = TASK_ASSIGNMENT THEN HotelTaskAssignment(S, m, ranked)
    ELSE IF m.type = BUDGET_APPROVAL THEN HotelBudgetApproval(S, m)
    ELSE IF m.type = BUDGET_REJECTION THEN HotelBudgetRejection(S, m)
    ELSE IF m.type = MODIFICATION_REQUEST THEN HotelModificationRequest(S, m)
    ELSE S

\* HotelAgent.process_message from the point it was suspended at
HotelContinue(S, m, label) ==
    IF label = "validation_requested" THEN ValidationRequested(S, m)
    ELSE IF label = "hotel_escalated" THEN HotelEscalated(S, m)
    ELSE S

\* ------------------------------------------------------------ other agents
\* budget and itinerary have no in-process class in the repository: their
\* process_message is the abstract method, which returns nothing, returns a
\* response or raises.
PeerOutcomes(a, m) ==
    {"none", "respond", "raise"}
        \cup (IF a = "budget" /\ m.type = BUDGET_VALIDATION THEN {"reject"} ELSE {})

PeerProcessMessage(S, a, m, outcome) ==
    IF outcome = "raise" THEN Raise(S, "RuntimeError: peer")
    ELSE IF outcome = "respond"
         THEN Return(S, IF a = "budget" /\ m.type = BUDGET_VALIDATION
                        THEN Msg(S.next_id, a, m.sender, m.session, BUDGET_APPROVAL, FALSE, m.id,
                                 Content("approved", m.content.arg, ""))
                        ELSE StatusUpdate(S.next_id, a, m.sender, m.session, "done"))
    ELSE IF outcome = "reject"
         THEN Return(S, Msg(S.next_id, a, m.sender, m.session, BUDGET_REJECTION, FALSE, m.id,
                            Content("rejected", Price(1), "")))
    ELSE S

\* ------------------------------------------------------------ BaseAgent.run
\* the inputs a handler draws: the search outcome, the abstract method's outcome
Choices(a, m) ==
    IF a = "hotel" /\ m.type = TASK_ASSIGNMENT /\ m.content.tag = "task_details"
    THEN {[ranked |-> r, outcome |-> "none"] : r \in SearchOutcomes}
    ELSE IF a \in Peers
         THEN {[ranked |-> <<>>, outcome |-> o] : o \in PeerOutcomes(a, m)}
         ELSE {[ranked |-> <<>>, outcome |-> "none"]}

ProcessMessage(S, a, m, choice) ==
    IF a = "orchestrator" THEN OrchProcessMessage(S, m)
    ELSE IF a = "hotel" THEN HotelProcessMessage(S, m, choice.ranked)
    ELSE PeerProcessMessage(S, a, m, choice.outcome)

Continue(S, a, m, label) ==
    IF a = "orchestrator" THEN OrchContinue(S, m, label)
    ELSE IF a = "hotel" THEN HotelContinue(S, m, label)
    ELSE S

\* back at "while self.running": wait on the queue again, or leave the loop
LoopTop(S, a) ==
    [S EXCEPT !.current[a] = NoMsg, !.cont[a] = "", !.awaiting[a] = {},
              !.pc[a] = IF S.running[a] THEN "idle" ELSE "exited"]

\* update_status(message.session_id, "idle"), then the loop top
IdleAgain(S, a) == LoopTop(Caught(S), a)

\* an error response addressed to the message's recipient, the agent itself
ErrorResponseToRecipient(S, a, m) ==
    Msg(S.next_id, a, m.recipient, m.session, STATUS_UPDATE, TRUE, m.id,
        Content("error", m.id, S.exc))

\* the error response of the run loop; requires_response keeps its default
ErrorResponse(S, a, m) ==
    Msg(S.next_id, a, m.sender, m.session, STATUS_UPDATE, TRUE, m.id,
        Content("error", m.id, S.exc))

\* "except Exception as e" around process_message and the sending of its response
ErrorPath(S, a, m) ==
    IF m.rr
    THEN LET S1 == AgentSendResponse(Caught(S), a, m.id, ErrorResponse(S, a, m))
         IN IF S1.exc # "" THEN LoopTop(Caught(S1), a)
            ELSE IF Suspended(S1, a) THEN [Suspend(S1, a, "responding") EXCEPT !.pc[a] = "wait"]
            ELSE IdleAgain(S1, a)
    ELSE IdleAgain(S, a)

\* "if response and message.requires_response: send_response(...)"
Respond(S, a, m) ==
    IF S.ret # NoMsg /\ m.rr
    THEN LET S1 == AgentSendResponse(S, a, m.id, S.ret)
         IN IF S1.exc # "" THEN ErrorPath(S1, a, m)
            ELSE IF Suspended(S1, a) THEN [Suspend(S1, a, "responding") EXCEPT !.pc[a] = "wait"]
            ELSE IdleAgain(S1, a)
    ELSE IdleAgain(S, a)

\* what the loop does with process_message's outcome
AfterProcess(S, a, m) ==
    IF S.exc # ""
    THEN ErrorPath([S EXCEPT !.failed = @ \cup {[id |-> m.id, agent |-> a, error |-> S.exc]},
                             !.processed = @ \cup {m.id},
                             !.awaiting[a] = {}], a, m)
    ELSE IF Suspended(S, a) THEN [S EXCEPT !.pc[a] = "wait"]
    ELSE Respond([S EXCEPT !.processed = @ \cup {m.id}], a, m)

\* one pass of the loop body, from the message taken off the queue to the
\* first suspension
Iteration(S, a, m, choice) ==
    LET S0 == [S EXCEPT !.message_queue[a] = Tail(@), !.current[a] = m]
        S1 == UpdateStatus(S0, m.session)
    IN IF S1.exc # "" THEN LoopTop(Caught(S1), a)
       ELSE AfterProcess(ProcessMessage(S1, a, m, choice), a, m)

\* the loop body from the suspension it was at
Resumption(S, a) ==
    LET m == S.current[a]
        label == S.cont[a]
        S0 == [S EXCEPT !.awaiting[a] = {}, !.cont[a] = ""]
    IN IF label = "responding" THEN IdleAgain(S0, a)
       ELSE AfterProcess(Continue(S0, a, m, label), a, m)

\* ------------------------------------------------------------ actions
\* run() up to the loop: running is set, then the status "active" is written
\* to the session named "system"; without such a session run() ends here
RunStart(a) ==
    /\ pc[a] = "start"
    /\ Commit([Cur EXCEPT !.running[a] = TRUE,
                          !.pc[a] = IF system_session THEN "idle" ELSE "crashed"])

\* the loop takes a message and processes it up to the first suspension
Dequeue(a) ==
    /\ pc[a] = "idle"
    /\ message_queue[a] # <<>>
    /\ next_id + Reserve <= MaxMsgs + 1
    /\ \E choice \in Choices(a, Head(message_queue[a])) :
           Commit(Iteration(Cur, a, Head(message_queue[a]), choice))

\* every awaited send has returned: the handler goes on
Resume(a) ==
    /\ pc[a] = "wait"
    /\ awaiting[a] \cap pending_responses = {}
    /\ Commit(Resumption(Cur, a))

\* the 30 s timer of a send_message call fires
TimerFires(id) ==
    /\ id \in pending_responses \ cancelled
    /\ Commit(CancelFuture(Cur, id))

\* the send_message call whose timer fired runs again and returns None
Timeout(id) ==
    /\ id \in cancelled
    /\ Commit(TimeoutMessage(Cur, id))

\* StateManager.create_session (the uuid4 is a session id not yet in use)
CreateSession(s) ==
    /\ ~SessionFound(Cur, s)
    /\ Commit([Cur EXCEPT !.sessions[s] = InitialState, !.checkpoints[s] = Put(InitialState)])

\* StateManager.add_booking called from outside the modelled handlers (the
\* transport specialist, or a lodging booking made while the lodging agent's
\* loop is not part of the scenario)
MaxBookings == 1
AddBookingCall(s, t) ==
    /\ State(s).exists
    /\ Len(State(s).bookings[t]) < MaxBookings
    /\ Commit(AddBooking(Cur, s, t, Booking(0, Price(MaxHotels + 1))))

\* a BaseAgent subclass is constructed (registers itself) and started
RegisterAgent(p) ==
    /\ p \notin agents
    /\ pc[p] = "none"
    /\ Commit([Cur EXCEPT !.agents = @ \cup {p}, !.pc[p] = "start"])

\* asyncio.wait_for(self.message_queue.get(), timeout=1.0) times out on an
\* empty queue: "continue", back to "while self.running"
QueueTimeout(a) ==
    /\ pc[a] = "idle"
    /\ message_queue[a] = <<>>
    /\ Commit(LoopTop(Cur, a))

\* stop() from "await self._task" on, once the task is done: a task that
\* ended with an exception raises it out of the await and unregister_agent is
\* not reached; otherwise the agent is unregistered and stop() returns
StopAwaited(S, a) ==
    IF S.pc[a] = "crashed"
    THEN [S EXCEPT !.stop_pc[a] = "raised"]
    ELSE [S EXCEPT !.agents = @ \ {a}, !.stop_pc[a] = "returned"]

\* stop() called on an agent that was started: the flag is cleared, then the
\* call awaits the task start() created
Stop(a) ==
    /\ pc[a] # "none"
    /\ stop_pc[a] # "awaiting"
    /\ LET S == [Cur EXCEPT !.running[a] = FALSE]
       IN Commit(IF pc[a] \in {"exited", "crashed"}
                 THEN StopAwaited(S, a)
                 ELSE [S EXCEPT !.stop_pc[a] = "awaiting"])

\* the awaited task is done: stop() runs on
StopResume(a) ==
    /\ stop_pc[a] = "awaiting"
    /\ pc[a] \in {"exited", "crashed"}
    /\ Commit(StopAwaited(Cur, a))

\* the bookings handed to add_booking: with a total_cost, with a cost only,
\* with both, with neither
MaxAdded == 3
BookingInputs ==
    {  [cand |-> 0, total_cost |-> Price(1)],
       [cand |-> 0, total_cost |-> Price(2)],
       [cand |-> 0, cost |-> Price(1)],
       [cand |-> 0, total_cost |-> Price(2), cost |-> Price(1)],
       [cand |-> 0] }

\* StateManager.add_booking with any booking type and any booking
AddBookingAny(s, t, booking) ==
    /\ State(s).exists
    /\ Len(added) < MaxAdded
    /\ Commit(AddBooking(Cur, s, t, booking))

\* StateManager.add_conflict called with a ConflictInfo
MaxConflicts == 3
AddConflictCall(s, conflict) ==
    /\ State(s).exists
    /\ Len(State(s).conflicts) < MaxConflicts
    /\ Commit(AddConflict(Cur, s, conflict))

\* StateManager.resolve_conflict called with an index, inside the list or
\* one past its end
ResolveConflictCall(s, conflict_index) ==
    /\ State(s).exists
    /\ conflict_index <= Len(State(s).conflicts)
    /\ Len(State(s).conflicts) <= 2 * MaxConflicts
    /\ Commit(StateResolveConflict(Cur, s, conflict_index))

\* StateManager.finalize_session called with a terminal status
MaxFinalize == 2
TerminalStatuses == {"completed", "failed"}
FinalizeCall(s, status) ==
    /\ SessionFound(Cur, s)
    /\ Len(finalized[s]) < MaxFinalize
    /\ Commit(FinalizeSession(Cur, s, status))

\* StateManager.get_state called for a session that exists
GetStateCall(s) ==
    /\ SessionFound(Cur, s)
    /\ Commit(GetState(Cur, s))

\* the ConflictInfo values handed to resolve_conflict
ConflictTypes == {"timing", "budget", "availability", "location", "weather"}
Descriptions ==
    {  <<>>, <<"flight", "Late_Arrival">>, <<"late_arrival">>, <<"OVERLAP">>,
       <<"too", "far", "distance">>, <<"price", "too", "high">> }
AgentLists == {<<>>, <<"hotel">>, <<"activity", "hotel">>}
ResolutionLists == {<<>>, <<"arrival_time">>, <<"reduced_budget", "alternative_time">>}
ConflictInputs ==
    {ConflictInfo(t, ag, d, r) :
        t \in ConflictTypes, ag \in AgentLists, d \in Descriptions, r \in ResolutionLists}

\* ConflictResolver.resolve_conflict applied to a ConflictInfo
ResolverCall(conflict) ==
    Commit([Cur EXCEPT !.call = [fn |-> "resolve_conflict", conflict |-> conflict],
                       !.call_result = ResolutionPlan(conflict)])

\* the completion sequences handed to validate_completion_order: the five
\* agents of the graph and a name the graph does not have, repeats allowed
MaxOrder == 5
GraphAgents == {"hotel", "transport", "activity", "budget", "itinerary"}
RECURSIVE Orders(_)
Orders(n) ==
    IF n = 0 THEN {<<>>}
    ELSE LET shorter == Orders(n - 1)
         IN shorter \cup {Append(o, a) : o \in {q \in shorter : Len(q) = n - 1},
                                         a \in GraphAgents \cup {"guide"}}

\* DependencyManager.validate_completion_order applied to a sequence
ValidateCall(order) ==
    Commit([Cur EXCEPT !.call = [fn |-> "validate_completion_order", order |-> order],
                       !.call_result = ValidateCompletionOrder(order)])

\* SecurityManager.check_rate_limit called for a client with a limit
MaxLimit == 2
MaxNow == 3
CheckRateLimitCall(client_id, limit) ==
    /\ rate_calls[client_id] <= MaxLimit + 1
    /\ Commit(CheckRateLimit(
           [Cur EXCEPT !.rate_calls[client_id] = @ + 1,
                       !.call = [fn |-> "check_rate_limit", client_id |-> client_id,
                                 limit |-> limit, nth |-> rate_calls[client_id] + 1]],
           client_id, limit))

\* time passes
Tick ==
    /\ now < MaxNow
    /\ Commit([Cur EXCEPT !.now = @ + 1,
                          !.rate_calls = IF MinuteKey(now + 1) # MinuteKey(now)
                                         THEN [c \in Clients |-> 0] ELSE @])

\* the sessions of the budget agent, the budgets they are given and the
\* amounts recorded and validated
TrackerSessions == {"default_session", "s1"}
Budgets == {0} \cup {Price(h) : h \in Hotels}
Amounts == {0} \cup {Price(h) : h \in Hotels}

SetSessionBudgetCall(session_id, total_budget) ==
    /\ session_id \notin DOMAIN budget_tracker
    /\ Commit(SetSessionBudget(Cur, session_id, total_budget))

RecordExpenseCall(session_id, amount) ==
    /\ session_id \in DOMAIN budget_tracker
    /\ budget_tracker[session_id].spent + amount <= Price(MaxHotels)
    /\ Commit(RecordExpense(Cur, session_id, amount))

\* validate_expense called while working on a session whose tracker entry
\* exists; the call records what that entry held before and holds after
ValidateExpenseCall(session_id, amount) ==
    /\ session_id \in DOMAIN budget_tracker
    /\ LET S1 == ValidateExpense(Cur, amount)
       IN Commit([S1 EXCEPT !.call =
                     [fn |-> "validate_expense", session_id |-> session_id,
                      amount |-> amount,
                      total |-> budget_tracker[session_id].total_budget,
                      spent |-> budget_tracker[session_id].spent,
                      spent_after |-> S1.budget_tracker[session_id].spent]])

\* AgentLauncher.run: start_all_agents
MaxRestarts == 2
LaunchStart(up) ==
    /\ launcher.phase = "init"
    /\ Commit([Cur EXCEPT !.launcher = StartAllAgents(launcher, up)])

\* an agent process ends by itself
ProcessExits(agent_id) ==
    /\ launcher.phase \in {"monitoring", "stopping"}
    /\ launcher.alive[agent_id]
    /\ Commit([Cur EXCEPT !.launcher.alive[agent_id] = FALSE])

\* monitor_agents finds a process that has ended and starts it again, in its
\* place in self.processes; the new process is running or has ended at once
MonitorRestart(agent_id, ok) ==
    /\ launcher.phase = "monitoring"
    /\ ~launcher.alive[agent_id]
    /\ launcher.restarts < MaxRestarts
    /\ Commit([Cur EXCEPT !.launcher.alive[agent_id] = ok, !.launcher.restarts = @ + 1])

\* KeyboardInterrupt, or the running flag cleared by the signal handler:
\* run() reaches stop_all_agents
Shutdown ==
    /\ launcher.phase = "monitoring"
    /\ Commit([Cur EXCEPT !.launcher.phase = "stopping", !.launcher.index = 1])

StopStep ==
    /\ launcher.phase = "stopping"
    /\ Commit([Cur EXCEPT !.launcher = StopNext(launcher)])

StopExited ==
    /\ launcher.phase = "waiting"
    /\ Commit([Cur EXCEPT !.launcher = StopWaitExit(launcher)])

StopKilled ==
    /\ launcher.phase = "waiting"
    /\ Commit([Cur EXCEPT !.launcher = StopWaitKill(launcher)])

\* A message handed to send_message from outside the modelled handlers
Env(sender, recipient, type, rr, tag, arg) ==
    [sender |-> sender, recipient |-> recipient, type |-> type, rr |-> rr,
     content |-> Content(tag, arg, "")]

\* plan_trip's message: create_task_assignment puts the preferences under task
PlanTripRequest == Env("system", "orchestrator", TASK_ASSIGNMENT, TRUE, "task", 0)

\* the messages of the router and run loop scenario: to an agent whose
\* process_message is the abstract one, with and without requires_response,
\* from a caller that is registered and from one that is not, and to a name
\* nobody registered
RouterMenu ==
    {  Env("system", "itinerary", TASK_ASSIGNMENT, TRUE, "task", 0),
       Env("system", "itinerary", STATUS_UPDATE, FALSE, "done", 0),
       Env("budget", "itinerary", STATUS_UPDATE, TRUE, "done", 0),
       Env("system", "transport", TASK_ASSIGNMENT, TRUE, "task", 0) }

\* the messages of the coordinator scenario
CoordinatorMenu ==
    {  PlanTripRequest,
       Env("system", "orchestrator", TASK_ASSIGNMENT, TRUE, "preferences", 0),
       Env("hotel", "orchestrator", STATUS_UPDATE, FALSE, "booking_confirmed", 0),
       Env("itinerary", "orchestrator", CONFLICT_ALERT, TRUE, "timing", 0) }

\* the messages of the lodging scenario
LodgingMenu ==
    {  Env("system", "hotel", TASK_ASSIGNMENT, TRUE, "task_details", 0),
       Env("budget", "hotel", BUDGET_APPROVAL, FALSE, "approved", 0),
       Env("budget", "hotel", BUDGET_REJECTION, FALSE, "rejected", Price(1)) }

\* MessageRouter.send_message called from outside the modelled handlers; the
\* caller is the external program ("system") or a registered agent
EnvSend(e) ==
    /\ next_id <= MaxMsgs
    /\ calls < MaxCalls
    /\ e.sender = "system" \/ e.sender \in agents
    /\ Commit(Caught(SendMessage([Bump(Cur) EXCEPT !.calls = @ + 1],
                  Msg(next_id, e.sender, e.recipient, "s1", e.type, e.rr, 0, e.content))))

Init ==
    /\ agents = Loops
    /\ message_log = <<>>
    /\ pending_responses = {}
    /\ cancelled = {}
    /\ message_queue = [a \in RunAgents |-> <<>>]
    /\ returned = [i \in AllIds |-> "unsent"]
    /\ reply = [i \in AllIds |-> NoMsg]
    /\ next_id = 1
    /\ sessions = [s \in SessionIds |-> Absent]
    /\ checkpoints = [s \in SessionIds |-> Absent]
    /\ system_session \in BOOLEAN
    /\ active_sessions = [s \in SessionIds |-> OrchAbsent]
    /\ pending_bookings = [s \in SessionIds |-> NoPending]
    /\ running = [a \in RunAgents |-> FALSE]
    /\ pc = [a \in RunAgents |-> IF a \in Loops THEN "start" ELSE "none"]
    /\ current = [a \in RunAgents |-> NoMsg]
    /\ cont = [a \in RunAgents |-> ""]
    /\ awaiting = [a \in RunAgents |-> {}]
    /\ failed = {}
    /\ processed = {}
    /\ responses = {}
    /\ calls = 0
    /\ rate_limits = EmptyDict
    /\ now = 0
    /\ rate_calls = [c \in Clients |-> 0]
    /\ budget_tracker = EmptyDict
    /\ launcher = [phase |-> "init", processes |-> <<>>,
                   alive |-> [a \in LaunchAgents |-> FALSE],
                   index |-> 0, restarts |-> 0, signals |-> <<>>]
    /\ call = [fn |-> "none"]
    /\ call_result = [exc |-> ""]
    /\ finalized = [s \in SessionIds |-> <<>>]
    /\ added = <<>>
    /\ stop_pc = [a \in RunAgents |-> "none"]
    /\ approvals = [c \in Clients |-> NoApproval]

\* the steps of the system in which the agents of run are scheduled, the
\* agents of peers may be constructed, bookings of the given types are added
\* from outside and the messages of menu are sent from outside
Step(run, peers, types, menu) ==
    \/ \E a \in run : RunStart(a)
    \/ \E a \in run : Dequeue(a)
    \/ \E a \in run : Resume(a)
    \/ \E id \in Ids : TimerFires(id)
    \/ \E id \in Ids : Timeout(id)
    \/ \E s \in SessionIds : CreateSession(s)
    \/ \E s \in SessionIds, t \in types : AddBookingCall(s, t)
    \/ \E p \in peers : RegisterAgent(p)
    \/ \E e \in menu : EnvSend(e)

\* the router and the run loop, with agents whose process_message is abstract
Next == Step({"itinerary"}, {"itinerary", "budget"}, {"activities"}, RouterMenu)

Spec == Init /\ [][Next]_vars

\* the event loop fires every timer and resumes every handler whose sends
\* have all returned
Fairness(run) ==
    /\ \A a \in run : WF_vars(Resume(a))
    /\ \A id \in Ids : WF_vars(TimerFires(id)) /\ WF_vars(Timeout(id))

\* the coordinator
NextCoordinator ==
    Step({"orchestrator"}, {"itinerary"}, {"hotels", "transport"}, CoordinatorMenu)

SpecCoordinator == Init /\ [][NextCoordinator]_vars

\* the messages of the conflict scenario: a request that gets the session
\* tracked, a conflict the resolver cannot resolve and one it can
ConflictMenu ==
    {  Env("system", "orchestrator", TASK_ASSIGNMENT, TRUE, "preferences", 0),
       Env("itinerary", "orchestrator", CONFLICT_ALERT, TRUE, "timing", 0),
       Env("itinerary", "orchestrator", CONFLICT_ALERT, FALSE, "budget", 0) }

\* the coordinator handling conflicts, under the event loop's scheduling
NextConflict == Step({"orchestrator"}, {"itinerary"}, {"hotels"}, ConflictMenu)

SpecConflictFair == Init /\ [][NextConflict]_vars /\ Fairness({"orchestrator"})

\* the lodging agent
NextLodging == Step({"hotel", "budget"}, {"budget"}, {"transport"}, LodgingMenu)

SpecLodging == Init /\ [][NextLodging]_vars

\* the messages of the shutdown scenario
StopMenu ==
    {  Env("system", "itinerary", STATUS_UPDATE, FALSE, "done", 0),
       Env("budget", "itinerary", STATUS_UPDATE, TRUE, "done", 0) }

\* an agent that is started, receives messages and is stopped
NextStop ==
    \/ Step({"itinerary"}, {"itinerary", "budget"}, {"activities"}, StopMenu)
    \/ \E a \in {"itinerary"} : QueueTimeout(a)
    \/ \E a \in {"itinerary"} : Stop(a)
    \/ \E a \in {"itinerary"} : StopResume(a)

\* the event loop runs every task that is ready: the run() task from its
\* creation, through its queue waits and handlers, and the stop() call
StopFairness(run) ==
    /\ Fairness(run)
    /\ \A a \in run : /\ WF_vars(RunStart(a))
                      /\ WF_vars(Dequeue(a))
                      /\ WF_vars(QueueTimeout(a))
                      /\ WF_vars(StopResume(a))

SpecStopFair == Init /\ [][NextStop]_vars /\ StopFairness({"itinerary"})

\* the state manager alone: sessions are created and bookings are added
NextBookings ==
    \/ \E s \in SessionIds : CreateSession(s)
    \/ \E s \in SessionIds, t \in BookingTypes \cup {"flights"}, b \in BookingInputs :
           AddBookingAny(s, t, b)

SpecBookings == Init /\ [][NextBookings]_vars

\* the state manager alone: conflicts are added and resolved
NextConflicts ==
    \/ \E s \in SessionIds : CreateSession(s)
    \/ \E s \in SessionIds, c \in ConflictTags : AddConflictCall(s, c)
    \/ \E s \in SessionIds, i \in 0..(2 * MaxConflicts) : ResolveConflictCall(s, i)

SpecConflicts == Init /\ [][NextConflicts]_vars

\* the state manager alone: sessions are created, written, finalized and read
NextFinalize ==
    \/ \E s \in SessionIds : CreateSession(s)
    \/ \E s \in SessionIds, b \in BookingInputs : AddBookingAny(s, "hotels", b)
    \/ \E s \in SessionIds, status \in TerminalStatuses : FinalizeCall(s, status)
    \/ \E s \in SessionIds : GetStateCall(s)

SpecFinalize == Init /\ [][NextFinalize]_vars

\* the conflict resolver applied to any ConflictInfo, one call in each behaviour
NextResolver ==
    /\ call.fn = "none"
    /\ \E conflict \in ConflictInputs : ResolverCall(conflict)

SpecResolver == Init /\ [][NextResolver]_vars

\* the dependency manager validating any completion sequence, one call in
\* each behaviour
NextValidate ==
    /\ call.fn = "none"
    /\ \E order \in Orders(MaxOrder) : ValidateCall(order)

SpecValidate == Init /\ [][NextValidate]_vars

\* the rate limiter: clients call it while time passes
NextRateLimit ==
    \/ \E c \in Clients, limit \in 1..MaxLimit : CheckRateLimitCall(c, limit)
    \/ Tick

SpecRateLimit == Init /\ [][NextRateLimit]_vars

\* the budget agent's tracker and its validation tool
NextBudget ==
    \/ \E session_id \in TrackerSessions, total_budget \in Budgets :
           SetSessionBudgetCall(session_id, total_budget)
    \/ \E session_id \in TrackerSessions, amount \in Amounts :
           RecordExpenseCall(session_id, amount)
    \/ \E session_id \in TrackerSessions, amount \in Amounts :
           ValidateExpenseCall(session_id, amount)

SpecBudget == Init /\ [][NextBudget]_vars

\* the basic launcher: start, monitor, shut down
NextLauncher ==
    \/ \E up \in SUBSET LaunchAgents : LaunchStart(up)
    \/ \E a \in LaunchAgents : ProcessExits(a)
    \/ \E a \in LaunchAgents, ok \in BOOLEAN : MonitorRestart(a, ok)
    \/ Shutdown
    \/ StopStep
    \/ StopExited
    \/ StopKilled

SpecLauncher == Init /\ [][NextLauncher]_vars

\* ------------------------------------------------------------ protocol
\* AgentMessage objects a caller hands to send_message: the constructor takes
\* any strings for sender, recipient and session_id and any dict for content
ProtocolMessages ==
    { [sender |-> e[1], recipient |-> e[2], session |-> e[3],
       type |-> e[4], rr |-> e[6], content |-> Content(e[5], 1, "")] :
        e \in { <<"", "itinerary", "s1", STATUS_UPDATE, "done", FALSE>>,
                <<"system", "", "s1", STATUS_UPDATE, "done", FALSE>>,
                <<"system", "itinerary", "", STATUS_UPDATE, "done", FALSE>>,
                <<"system", "itinerary", "s1", BUDGET_VALIDATION, "cost", TRUE>>,
                <<"system", "itinerary", "s1", BUDGET_VALIDATION, "no_cost", TRUE>>,
                <<"system", "itinerary", "s1", BUDGET_VALIDATION, "negative_cost", FALSE>>,
                <<"system", "itinerary", "s1", CONFLICT_ALERT, "no_affected_agents", FALSE>>,
                <<"system", "itinerary", "s1", HUMAN_ESCALATION, "escalation", FALSE>>,
                <<"system", "itinerary", "s1", HUMAN_ESCALATION, "no_reason", TRUE>>,
                <<"system", "itinerary", "s1", HUMAN_ESCALATION, "no_options", FALSE>> } }

\* await router.send_message(AgentMessage(...)) from outside the agents
ProtocolSend(e) ==
    /\ next_id <= MaxMsgs
    /\ calls < MaxCalls
    /\ Commit(Caught(SendMessage([Bump(Cur) EXCEPT !.calls = @ + 1],
                  Msg(next_id, e.sender, e.recipient, e.session, e.type, e.rr, 0,
                      e.content))))

NextProtocol ==
    \/ Step({"itinerary"}, {"itinerary", "budget"}, {"activities"}, StopMenu)
    \/ \E e \in ProtocolMessages : ProtocolSend(e)

SpecProtocol == Init /\ [][NextProtocol]_vars

\* ------------------------------------------------------------ agent executor
MaxItems == 3

\* what graph.stream hands over per step: an AIMessage with tool calls, a
\* ToolMessage, any other message, or an exception raised by the graph
GraphItems == {"ai_tool_calls", "tool_message", "other", "raise"}

\* current_state.values.get("structured_response"): absent, of the response
\* format class, or of another type
StructuredResponses == {"none", "response_format", "other_type"}

\* _get_final_response
GetFinalResponse(structured_response) ==
    IF structured_response = "response_format"
    THEN [is_task_complete |-> TRUE, updates |-> "", content |-> "structured"]
    ELSE [is_task_complete |-> FALSE, updates |-> "", content |-> "Unable to process"]

\* ActivityAgentA2A.stream: the updates it yields, and whether it raised
RECURSIVE AgentStream(_, _)
AgentStream(items, structured_response) ==
    IF items = <<>>
    THEN [yields |-> <<GetFinalResponse(structured_response)>>, raised |-> FALSE]
    ELSE IF Head(items) = "raise" THEN [yields |-> <<>>, raised |-> TRUE]
    ELSE LET rest == AgentStream(Tail(items), structured_response)
             update == [is_task_complete |-> FALSE,
                        updates |-> IF Head(items) = "ai_tool_calls" THEN "Searching"
                                    ELSE "Analyzing",
                        content |-> ""]
         IN IF Head(items) = "other" THEN rest
            ELSE [rest EXCEPT !.yields = <<update>> \o @]

\* the body of the async for of invoke over the yielded updates: statuses is
\* the sequence of task statuses handed to update_task, returned says the
\* loop was left by its return
RECURSIVE ConsumeUpdates(_, _)
ConsumeUpdates(yields, statuses) ==
    IF yields = <<>> THEN [statuses |-> statuses, returned |-> FALSE]
    ELSE IF Head(yields).is_task_complete
         THEN [statuses |-> Append(statuses, "completed"), returned |-> TRUE]
         ELSE ConsumeUpdates(Tail(yields), Append(statuses, "in_progress"))

\* ActivityAgentExecutor.invoke
Invoke(has_message, items, structured_response) ==
    IF ~has_message THEN [exc |-> "ServerError", statuses |-> <<>>]
    ELSE LET stream == AgentStream(items, structured_response)
             loop == ConsumeUpdates(stream.yields, <<>>)
         IN IF loop.returned THEN [exc |-> "", statuses |-> loop.statuses]
            ELSE IF stream.raised
                 THEN [exc |-> "", statuses |-> Append(loop.statuses, "failed")]
                 ELSE [exc |-> "", statuses |-> Append(loop.statuses, "completed")]

RECURSIVE ItemSeqs(_)
ItemSeqs(n) ==
    IF n = 0 THEN {<<>>}
    ELSE LET shorter == ItemSeqs(n - 1)
         IN shorter \cup {Append(q, i) : q \in {r \in shorter : Len(r) = n - 1},
                                         i \in GraphItems}

InvokeCall(has_message, items, structured_response) ==
    Commit([Cur EXCEPT !.call = [fn |-> "invoke", has_message |-> has_message,
                                 items |-> items,
                                 structured_response |-> structured_response],
                       !.call_result = Invoke(has_message, items, structured_response)])

NextExecutor ==
    /\ call.fn = "none"
    /\ \E has_message \in BOOLEAN, items \in ItemSeqs(MaxItems),
          structured_response \in StructuredResponses :
           InvokeCall(has_message, items, structured_response)

SpecExecutor == Init /\ [][NextExecutor]_vars

\* ------------------------------------------------------------ late check-in
\* hours of the arrival_time of a late check-in request
ArrivalHours == {20, 21, 22, 23}

LateCheckinMenu ==
    { Env("orchestrator", "hotel", MODIFICATION_REQUEST, TRUE, "request_late_checkin", h) :
          h \in ArrivalHours }
    \cup { Env("system", "hotel", TASK_ASSIGNMENT, TRUE, "task_details", 0) }

NextLateCheckin == Step({"hotel"}, {"budget"}, {"hotels"}, LateCheckinMenu)

SpecLateCheckin == Init /\ [][NextLateCheckin]_vars

\* ------------------------------------------------------------ itinerary trigger
\* OrchestratorAgent.initialize
OrchInitialize(S, s) ==
    UpdateStatus([S EXCEPT !.active_sessions[s] = InitialOrchSession], s)

\* await orchestrator.initialize(session_id)
InitializeCall(s) ==
    /\ ~OrchKnows(Cur, s)
    /\ Commit(Caught(OrchInitialize(Cur, s)))

StatusMenu ==
    {  Env("hotel", "orchestrator", STATUS_UPDATE, FALSE, "booking_confirmed", 0),
       Env("system", "orchestrator", STATUS_UPDATE, FALSE, "done", 0) }

\* the coordinator receiving status updates for a session it tracks
NextStatus ==
    \/ Step({"orchestrator"}, {"itinerary"}, {"hotels", "transport"}, StatusMenu)
    \/ \E s \in SessionIds : InitializeCall(s)

SpecStatus == Init /\ [][NextStatus]_vars

\* ------------------------------------------------------------ human decision
\* StateManager.resolve_human_approval
ResolveHumanApproval(S, s, approved) ==
    LET S1 == UpdateState(S, s, "human_approval_needed", FALSE)
    IN IF S1.exc # "" THEN S1
       ELSE UpdateState(S1, s, "status", IF approved THEN "booking" ELSE "planning")

\* the rest of handle_human_decision once its sends have returned
DecisionResumeProcessing(S, s) == [S EXCEPT !.active_sessions[s].status = "active"]

\* handle_human_decision up to the wait of its send; actions is the set of
\* agents the chosen option holds an instruction for (empty without a chosen
\* option). The call is made by the task that received the human's answer.
HandleHumanDecision(S, s, approved, actions) ==
    LET S1 == ResolveHumanApproval(S, s, approved)
    IN IF S1.exc # "" THEN S1
       ELSE IF approved /\ actions # {}
       THEN LET agent == CHOOSE a \in actions : TRUE
                S2 == SendMessage(Bump(S1),
                          Msg(S1.next_id, "orchestrator", agent, s, MODIFICATION_REQUEST, TRUE,
                              0, Content("instruction", 0, "")))
            IN IF S2.exc # "" THEN S2
               ELSE [S2 EXCEPT !.call = [fn |-> "handle_human_decision", session |-> s,
                                         id |-> S1.next_id]]
       ELSE IF ~OrchKnows(S1, s) THEN Raise(S1, "KeyError: session_id")
       ELSE DecisionResumeProcessing(S1, s)

\* await orchestrator.handle_human_decision(session_id, decision)
HumanDecisionCall(s, approved, actions) ==
    /\ call.fn = "none"
    /\ next_id <= MaxMsgs
    /\ Commit(Caught(HandleHumanDecision(Cur, s, approved, actions)))

\* the send of handle_human_decision returns, with a response or with None
HumanDecisionReturn ==
    /\ call.fn = "handle_human_decision"
    /\ call.id \notin pending_responses
    /\ Commit(Caught(IF OrchKnows(Cur, call.session)
                     THEN [DecisionResumeProcessing(Cur, call.session)
                               EXCEPT !.call = [fn |-> "none"]]
                     ELSE [Cur EXCEPT !.call = [fn |-> "none"]]))

ApprovalMenu ==
    {  Env("itinerary", "orchestrator", CONFLICT_ALERT, FALSE, "timing", 0),
       Env("hotel", "orchestrator", STATUS_UPDATE, FALSE, "booking_confirmed", 0) }

\* the coordinator escalating a conflict, receiving status updates and being
\* given the human's decision
NextApproval ==
    \/ Step({"orchestrator"}, {"itinerary"}, {"hotels", "transport"}, ApprovalMenu)
    \/ \E s \in SessionIds : InitializeCall(s)
    \/ \E s \in SessionIds, approved \in BOOLEAN, actions \in {{}, {"hotel"}} :
           HumanDecisionCall(s, approved, actions)
    \/ HumanDecisionReturn

SpecApproval == Init /\ [][NextApproval]_vars

\* ------------------------------------------------------------ budget callers
\* a caller asks the validation tool for an amount and keeps the approval
CallerValidate(c, amount) ==
    /\ ~approvals[c].has
    /\ LET S1 == ValidateExpense(Cur, amount)
       IN Commit(IF S1.call_result.exc = "" /\ S1.call_result.approved
                 THEN [S1 EXCEPT !.approvals[c] = [has |-> TRUE, amount |-> amount]]
                 ELSE S1)

\* the caller records the amount that was approved for it, on the tracker
\* entry validate_expense looked at
CallerRecord(c) ==
    /\ approvals[c].has
    /\ Commit([RecordExpense(Cur, "default_session", approvals[c].amount)
                  EXCEPT !.approvals[c] = NoApproval])

\* callers that record only what was approved for them, in one process
NextBudgetCallers ==
    \/ \E total_budget \in Budgets : SetSessionBudgetCall("default_session", total_budget)
    \/ \E c \in Clients, amount \in Amounts : CallerValidate(c, amount)
    \/ \E c \in Clients : CallerRecord(c)

SpecBudgetCallers == Init /\ [][NextBudgetCallers]_vars

\* ------------------------------------------------------------ task analysis
MaxTripDays == 9
MaxTravelers == 4

\* an amount of money in thousandths, the unit in which every product of the
\* analyzer's factors with a multiple of 100 is a whole number
Scaled(amount) == amount * 1000

\* a Scaled amount times a factor given in hundredths
Times(x, hundredths) == (x * hundredths) \div 100

\* TaskAnalyzer.analyze_request: the allocations of its result, Scaled
AnalyzeRequest(trip_days, travelers, total_budget, spent, available) ==
    LET base == [hotel_budget |-> Times(Scaled(available), 35),
                 transport_budget |-> Times(Scaled(available), 30),
                 activities_budget |-> Times(Scaled(available), 20),
                 buffer |-> Times(Scaled(available), 15)]
        long == IF trip_days > 7
                THEN [base EXCEPT !.hotel_budget = Times(@, 110),
                                  !.activities_budget = Times(@, 90)]
                ELSE base
        group == IF travelers > 2
                 THEN [long EXCEPT !.transport_budget = Times(@, 115),
                                   !.hotel_budget = Times(@, 95)]
                 ELSE long
    IN [exc |-> "", allocations |-> group]

\* the budget limits and spends of the sessions analysed
BudgetLimits == {1000, 2000}
Spends == {0, 500, 1000}

\* _handle_new_request's call: available is budget_limit - budget_spent
AnalyzeCall(trip_days, travelers, total_budget, spent) ==
    Commit([Cur EXCEPT
        !.call = [fn |-> "analyze_request", trip_days |-> trip_days,
                  travelers |-> travelers, total_budget |-> total_budget, spent |-> spent],
        !.call_result = AnalyzeRequest(trip_days, travelers, total_budget, spent,
                                       total_budget - spent)])

NextAnalyze ==
    /\ call.fn = "none"
    /\ \E trip_days \in 1..MaxTripDays, travelers \in 1..MaxTravelers,
          total_budget \in BudgetLimits, spent \in Spends :
           AnalyzeCall(trip_days, travelers, total_budget, spent)

SpecAnalyze == Init /\ [][NextAnalyze]_vars

\* ------------------------------------------------ repeated budget rejections
\* the messages of the scenario: one lodging task and the budget agent's
\* rejection that leaves Price(1) available
RetryMenu ==
    {  Env("system", "hotel", TASK_ASSIGNMENT, FALSE, "task_details", 0),
       Env("budget", "hotel", BUDGET_REJECTION, FALSE, "rejected", Price(1)) }

\* MessageRouter.send_message called by the external program or by the
\* budget agent; the lodging task is assigned once
RetrySend(e) ==
    /\ next_id <= MaxRetryMsgs
    /\ e.sender = "system" \/ e.sender \in agents
    /\ e.type = TASK_ASSIGNMENT => calls = 0
    /\ Commit(Caught(SendMessage([Bump(Cur) EXCEPT !.calls = IF e.type = TASK_ASSIGNMENT THEN 1 ELSE @],
                  Msg(next_id, e.sender, e.recipient, "s1", e.type, e.rr, 0, e.content))))

\* the lodging agent's loop takes a message and processes it up to the first suspension
RetryDequeue(a) ==
    /\ pc[a] = "idle"
    /\ message_queue[a] # <<>>
    /\ next_id + Reserve <= MaxRetryMsgs + 1
    /\ \E choice \in Choices(a, Head(message_queue[a])) :
           Commit(Iteration(Cur, a, Head(message_queue[a]), choice))

NextRetry ==
    \/ RunStart("hotel")
    \/ RetryDequeue("hotel")
    \/ Resume("hotel")
    \/ \E id \in AllIds : TimerFires(id)
    \/ \E id \in AllIds : Timeout(id)
    \/ \E s \in SessionIds : CreateSession(s)
    \/ RegisterAgent("budget")
    \/ \E e \in RetryMenu : RetrySend(e)

SpecRetry == Init /\ [][NextRetry]_vars

\* --------------------------------------------------------------- API gateway
\* SECRET_KEY of the process and a key of somebody else
SECRET_KEY == "secret"
OtherKey == "other"

\* ACCESS_TOKEN_EXPIRE_MINUTES and the seven days of a refresh token, in ticks
AccessLifetime == 30 * TicksPerMinute
RefreshLifetime == 7 * 24 * 60 * TicksPerMinute

\* the attributes of a SecurityManager instance
SecurityManagerAttrs ==
    {"service_accounts", "api_keys", "rate_limits", "create_jwt_token", "verify_jwt_token",
     "create_service_token", "verify_api_key", "check_rate_limit", "generate_session_id"}

\* payload.get("type") of a token made without a type
NoType == ""

\* create_jwt_token at time t: the data with exp, signed with SECRET_KEY
CreateJwtToken(data, expires_delta, t) ==
    [payload |-> [sub |-> data.sub, type |-> data.type, exp |-> t + expires_delta],
     key |-> SECRET_KEY]

\* verify_jwt_token at time t: the payload, or None for a bad signature or
\* an expired token
VerifyJwtToken(token, t) ==
    IF token.key # SECRET_KEY THEN [ok |-> FALSE, payload |-> token.payload]
    ELSE IF token.payload.exp <= t THEN [ok |-> FALSE, payload |-> token.payload]
    ELSE [ok |-> TRUE, payload |-> token.payload]

\* POST /auth/login
Login(S, username, password, sub) ==
    IF username = "demo" /\ password = "demo123"
    THEN [S EXCEPT !.call_result =
              [status |-> 200, forwarded |-> FALSE,
               access_token |-> CreateJwtToken([sub |-> sub, type |-> NoType], AccessLifetime, S.now),
               refresh_token |-> CreateJwtToken([sub |-> sub, type |-> "refresh"], RefreshLifetime, S.now)]]
    ELSE [S EXCEPT !.call_result = [status |-> 401, forwarded |-> FALSE]]

\* POST /auth/refresh with the header "<scheme> <token>"
RefreshToken(S, scheme, token) ==
    LET verified == VerifyJwtToken(token, S.now)
    IN IF scheme # "Bearer"
       THEN [S EXCEPT !.call_result = [status |-> 401, forwarded |-> FALSE]]
       ELSE IF ~verified.ok \/ verified.payload.type # "refresh"
       THEN [S EXCEPT !.call_result = [status |-> 401, forwarded |-> FALSE]]
       ELSE [S EXCEPT !.call_result =
                 [status |-> 200, forwarded |-> FALSE,
                  access_token |-> CreateJwtToken([sub |-> verified.payload.sub, type |-> NoType],
                                                  AccessLifetime, S.now),
                  refresh_token |-> token]]

\* get_current_user: 401 when verify_jwt_token returns None, else the user
GetCurrentUser(token, t) ==
    LET verified == VerifyJwtToken(token, t)
    IN IF ~verified.ok THEN [status |-> 401, user_id |-> ""]
       ELSE [status |-> 200, user_id |-> verified.payload.sub]

\* POST /travel/plan: get_current_user, check_rate_limit with limit 120, then
\* the body, whose first statement reads security_manager.security_manager
PlanTravel(S, token) ==
    LET user == GetCurrentUser(token, S.now)
        S1 == CheckRateLimit([S EXCEPT !.rate_calls[user.user_id] = @ + 1], user.user_id, 120)
    IN IF user.status = 401
       THEN [S EXCEPT !.call_result = [status |-> 401, forwarded |-> FALSE]]
       ELSE IF ~S1.call_result.allowed
       THEN [S1 EXCEPT !.call_result = [status |-> 429, forwarded |-> FALSE]]
       ELSE IF "security_manager" \notin SecurityManagerAttrs
       THEN [S1 EXCEPT !.call_result = [status |-> 500, forwarded |-> FALSE]]
       ELSE [S1 EXCEPT !.call_result = [status |-> 200, forwarded |-> TRUE]]

\* GET /agents: get_current_user, then the list of agents
ListAgents(S, token) ==
    LET user == GetCurrentUser(token, S.now)
    IN IF user.status = 401
       THEN [S EXCEPT !.call_result = [status |-> 401, forwarded |-> FALSE]]
       ELSE [S EXCEPT !.call_result = [status |-> 200, forwarded |-> FALSE]]

\* the times a presented token was issued at: now, one access lifetime ago,
\* one refresh lifetime ago
IssueTimes(t) == {t, t - AccessLifetime, t - RefreshLifetime}

\* the bearer credentials a request presents: tokens login and refresh
\* issued, and the same tokens signed with another key
BearerTokens(t) ==
    LET issued == {CreateJwtToken([sub |-> sub, type |-> k[1]], k[2], iat) :
                       sub \in Clients, iat \in IssueTimes(t),
                       k \in {<<NoType, AccessLifetime>>, <<"refresh", RefreshLifetime>>}}
    IN issued \cup {[tk EXCEPT !.key = OtherKey] : tk \in issued}

LoginCall(username, password, sub) ==
    Commit(Login([Cur EXCEPT !.call = [fn |-> "login", username |-> username, password |-> password]],
                 username, password, sub))

RefreshTokenCall(scheme, token) ==
    Commit(RefreshToken([Cur EXCEPT !.call = [fn |-> "refresh_token", scheme |-> scheme, token |-> token]],
                        scheme, token))

PlanTravelCall(token) ==
    /\ rate_calls[token.payload.sub] <= MaxLimit
    /\ Commit(PlanTravel([Cur EXCEPT !.call = [fn |-> "plan_travel", token |-> token]], token))

ListAgentsCall(token) ==
    Commit(ListAgents([Cur EXCEPT !.call = [fn |-> "list_agents", token |-> token]], token))

NextGateway ==
    \/ \E username \in {"demo", "guest"}, password \in {"demo123", "x"}, sub \in Clients :
           LoginCall(username, password, sub)
    \/ \E scheme \in {"Bearer", "Basic"}, token \in BearerTokens(now) : RefreshTokenCall(scheme, token)
    \/ \E token \in BearerTokens(now) : PlanTravelCall(token)
    \/ \E token \in BearerTokens(now) : ListAgentsCall(token)
    \/ Tick

SpecGateway == Init /\ [][NextGateway]_vars

\* ------------------------------------------------------------ properties
\* how often the message with id i was appended to the log
LogCount(i) == Cardinality({k \in DOMAIN message_log : message_log[k].id = i})

\* the places of the queues that hold the message with id i
QueuePlaces(i) ==
    {p \in RunAgents \X (1..MaxMsgs) :
        p[2] <= Len(message_queue[p[1]]) /\ message_queue[p[1]][p[2]].id = i}

\* the run loops that are processing the message with id i
Holders(i) == {a \in RunAgents : current[a].id = i}

\* the logged message with id i
Logged(i) == message_log[CHOOSE k \in DOMAIN message_log : message_log[k].id = i]

\* C6: a send_message whose recipient is not registered raises: afterwards the
\* message is in the log (once), there is no pending-response entry for it and
\* it is in no queue and was taken by no run loop; and a message to a name that
\* never registers always ends this way.
C6_UnknownRecipientRaises ==
    \A k \in DOMAIN message_log :
        LET m == message_log[k]
        IN /\ m.recipient \notin RunAgents => returned[m.id] = "raised"
           /\ returned[m.id] = "raised" =>
                 /\ LogCount(m.id) = 1
                 /\ m.id \notin pending_responses
                 /\ QueuePlaces(m.id) = {}
                 /\ Holders(m.id) = {}
                 /\ m.id \notin processed
                 /\ reply[m.id] = NoMsg

\* a message that required a response was sent to "itinerary" before that
\* agent registered; the agent has registered since
C6_Witness ==
    \E k \in DOMAIN message_log :
        /\ message_log[k].rr
        /\ message_log[k].recipient = "itinerary"
        /\ returned[message_log[k].id] = "raised"
        /\ "itinerary" \in agents

\* C7: when no response arrives within the timeout, send_message returns None
\* (no response), the pending-response entry of the message is gone and stays
\* gone, and the message was sent once only: one log entry, at most one
\* delivery.
C7_TimeoutReturnsNone ==
    \A i \in Ids :
        returned[i] = "timeout" =>
            /\ reply[i] = NoMsg
            /\ i \notin pending_responses
            /\ LogCount(i) = 1
            /\ Cardinality(QueuePlaces(i)) + Cardinality(Holders(i)) <= 1

\* a call timed out and the recipient's response to it came late
C7_Witness ==
    \E h \in responses : returned[h.id] = "timeout" /\ ~h.pending /\ h.id \in processed

\* C8: send_response(id, r) with an entry for id in pending_responses makes
\* the waiting send_message return exactly r and removes the entry, and r is
\* not routed; with no entry for id, r goes through send_message: it is
\* logged and delivered to r.recipient, or refused when r.recipient is not
\* registered.
C8_SendResponse ==
    \A h \in responses :
        LET r == h.response
        IN /\ h.pending =>
                 /\ returned[h.id] = "response"
                 /\ reply[h.id] = r
                 /\ h.id \notin pending_responses
                 /\ LogCount(r.id) = 0
                 /\ returned[r.id] = "unsent"
           /\ ~h.pending =>
                 /\ reply[h.id] # r
                 /\ returned[h.id] # "response"
                 /\ LogCount(r.id) = 1
                 /\ Logged(r.id) = r
                 /\ returned[r.id] # "unsent"
                 /\ r.recipient = "system" => returned[r.id] = "raised"
                 /\ r.recipient \in Loops => returned[r.id] # "raised"

\* r is the run loop's error response to m for the exception e
IsErrorResponse(r, m, e) ==
    /\ r.type = STATUS_UPDATE
    /\ r.recipient = m.sender
    /\ r.session = m.session
    /\ r.corr = m.id
    /\ r.content = Content("error", m.id, e)

\* the run loop of agent a is alive: it waits on its queue or on a send
LoopAlive(a) == pc[a] # "crashed" /\ (running[a] => pc[a] \in {"idle", "wait"})

\* the error response of the loop to the failed message f, handed to
\* send_response
ErrorResponses(f) ==
    {h \in responses : h.id = f.id /\ IsErrorResponse(h.response, Logged(f.id), f.error)}

C10_ErrorLogged ==
    \A f \in failed :
        LET s == Logged(f.id).session
        IN Cardinality({k \in DOMAIN State(s).error_log :
               State(s).error_log[k] = [agent |-> f.agent, error |-> f.error]}) = 1

\* the coordinator is inside _handle_conflict for session s, with a conflict
\* for which the resolver reports can_resolve_automatically = false: it is
\* at the send of request_human_approval
EscalatingConflict(s) ==
    LET m == current["orchestrator"]
    IN /\ pc["orchestrator"] = "wait"
       /\ cont["orchestrator"] = "orch_escalated"
       /\ m.type = CONFLICT_ALERT
       /\ m.session = s
       /\ ValidConflictInfo(m.content.tag)
       /\ ResolveConflict(m.content.tag).raises = ""
       /\ ~ResolveConflict(m.content.tag).can

AwaitingHuman(s) ==
    State(s).status = "awaiting_human_approval" /\ State(s).human_approval_needed

\* C5: when the coordinator handles a conflict alert that the resolver cannot
\* resolve automatically, the session's status eventually becomes
\* awaiting_human_approval and its human_approval_needed flag is true.
C5_UnresolvableConflictEscalates ==
    \A s \in SessionIds : EscalatingConflict(s) ~> AwaitingHuman(s)

\* the coordinator has left _handle_conflict after escalating: the session
\* awaits a human, in the shared state and in the coordinator's tracking
C5_Witness ==
    \E s \in SessionIds :
        /\ AwaitingHuman(s)
        /\ active_sessions[s].status = "awaiting_human_approval"
        /\ \E i \in processed : Logged(i).type = CONFLICT_ALERT /\ Logged(i).session = s

\* a task assignment of the coordinator to the given agent
IsTaskFor(m, recipient) ==
    m.type = TASK_ASSIGNMENT /\ m.sender = "orchestrator" /\ m.recipient = recipient

\* session s has a hotel and a transport booking, and nobody but "itinerary"
\* is in its pending-agents list
ReadyForItinerary(s) ==
    /\ Len(State(s).bookings["hotels"]) > 0
    /\ Len(State(s).bookings["transport"]) > 0
    /\ active_sessions[s].has_pending_agents =>
           \A i \in 1..Len(active_sessions[s].pending_agents) :
               active_sessions[s].pending_agents[i] = "itinerary"

\* C1: the coordinator sends the itinerary task of a session only at a moment
\* when the session holds at least one hotel booking and at least one
\* transport booking and no agent other than itinerary is pending.
C1_ItineraryOnlyWhenComplete ==
    [][\A k \in DOMAIN message_log' :
          (k > Len(message_log) /\ IsTaskFor(message_log'[k], "itinerary"))
              => \E s \in SessionIds : s = message_log'[k].session /\ ReadyForItinerary(s)']_vars

\* the itinerary task has been delivered to the itinerary agent
C1_Witness ==
    \E k \in DOMAIN message_log :
        /\ IsTaskFor(message_log[k], "itinerary")
        /\ returned[message_log[k].id] # "raised"
        /\ ReadyForItinerary(message_log[k].session)

\* a new trip request as it reaches the coordinator
IsTripRequest(m) ==
    m.type = TASK_ASSIGNMENT /\ m.recipient = "orchestrator" /\ m.sender = "system"

\* C4: once the coordinator has processed a plan_trip request, task
\* assignments to budget, hotel and transport have been sent for the session
\* and activity and itinerary are recorded as its pending agents.
C4_TripRequestDistributed ==
    \A i \in processed :
        IsTripRequest(Logged(i)) =>
            LET s == Logged(i).session
            IN /\ \A r \in {"budget", "hotel", "transport"} :
                      \E k \in DOMAIN message_log :
                          IsTaskFor(message_log[k], r) /\ message_log[k].session = s
               /\ active_sessions[s].has_pending_agents
               /\ active_sessions[s].pending_agents = <<"activity", "itinerary">>

\* C3: every hotel booking persisted in a session was preceded by a budget
\* validation request of the hotel agent for that same booking that the
\* router accepted.
C3_BookingAfterValidationSent ==
    \A s \in SessionIds :
        \A k \in DOMAIN State(s).bookings["hotels"] :
            \E j \in DOMAIN message_log :
                LET v == message_log[j]
                IN /\ v.type = BUDGET_VALIDATION
                   /\ v.sender = "hotel"
                   /\ v.session = s
                   /\ v.content.arg = State(s).bookings["hotels"][k].cand
                   /\ returned[v.id] # "raised"

\* ------------------------------------------------------------ C11
\* C11: after start(), every call to stop() eventually returns, and when it
\* has returned the run loop has exited and the agent's name is no longer
\* registered in the router.
C11_StopReturns ==
    \A a \in RunAgents :
        /\ [](stop_pc[a] # "raised")
        /\ (stop_pc[a] = "awaiting") ~> (stop_pc[a] = "returned")
        /\ [](stop_pc[a] = "returned" => pc[a] = "exited" /\ a \notin agents)

\* ------------------------------------------------------------ C12
\* the bookings of type t handed to add_booking for session s, in call order
AddedOfType(s, t) ==
    LET F[i \in 0..Len(added)] ==
            IF i = 0 THEN <<>>
            ELSE IF added[i].session = s /\ added[i].type = t
                 THEN Append(F[i - 1], added[i].booking)
                 ELSE F[i - 1]
    IN F[Len(added)]

\* the sum over the add_booking calls for session s of total_cost, or of cost
\* when total_cost is absent
AddedCost(s) ==
    LET F[i \in 0..Len(added)] ==
            IF i = 0 THEN 0
            ELSE F[i - 1] +
                 (IF added[i].session # s THEN 0
                  ELSE IF "total_cost" \in DOMAIN added[i].booking THEN added[i].booking.total_cost
                  ELSE IF "cost" \in DOMAIN added[i].booking THEN added[i].booking.cost
                  ELSE 0)
    IN F[Len(added)]

\* C12: after any sequence of add_booking calls on a freshly created session,
\* budget_spent is the sum of the added bookings' total_cost (cost when
\* total_cost is absent) and bookings[booking_type] holds exactly the added
\* bookings of that type, each once.
C12_BookingsAndSpent ==
    \A s \in SessionIds :
        State(s).exists =>
            /\ State(s).budget_spent = AddedCost(s)
            /\ \A t \in BookingTypes \cup {"flights"} :
                   IF t \in DOMAIN State(s).bookings
                   THEN State(s).bookings[t] = AddedOfType(s, t)
                   ELSE AddedOfType(s, t) = <<>>

\* three bookings were added, in two categories, one priced by its cost key
C12_Witness ==
    /\ Len(added) = MaxAdded
    /\ \E i, j \in DOMAIN added : added[i].type # added[j].type
    /\ \E i \in DOMAIN added : "total_cost" \notin DOMAIN added[i].booking /\ "cost" \in DOMAIN added[i].booking
    /\ \E i \in DOMAIN added : "total_cost" \in DOMAIN added[i].booking
    /\ State("s1").budget_spent > 0

\* ------------------------------------------------------------ C13
\* C13: add_conflict makes the session's conflicts list longer by exactly the
\* given entry, and resolve_conflict with a valid index removes exactly that
\* entry and leaves every other entry in place once: every change of the list
\* is the append of one entry or the removal of one position.
C13_ConflictsChangeByOne ==
    [][\A s \in SessionIds :
          LET old == State(s).conflicts
              new == State(s)'.conflicts
          IN (State(s).exists /\ new # old) =>
                 \/ \E c \in ConflictTags : new = Append(old, c)
                 \/ \E i \in DOMAIN old : new = RemoveAt(old, i)]_vars

C15_ResolveConflictPlan ==
    call.fn = "resolve_conflict" =>
        LET c == call.conflict
            resolvable ==
                \/ c.conflict_type \in {"budget", "availability"}
                \/ /\ c.conflict_type = "timing"
                   /\ \E i \in DOMAIN c.description :
                          Lower(c.description[i]) \in {"late_arrival", "overlap"}
                \/ /\ c.conflict_type = "location"
                   /\ \E i \in DOMAIN c.description : Lower(c.description[i]) = "distance"
        IN /\ call_result.exc = ""
           /\ call_result.can_resolve_automatically <=> resolvable
           /\ call_result.requires_human <=> ~resolvable

\* ------------------------------------------------------------ C16
\* the prerequisites the dependency graph is said to hold: activity after
\* hotel; itinerary after hotel, transport and activity
Prerequisites(agent) ==
    IF agent = "activity" THEN {"hotel"}
    ELSE IF agent = "itinerary" THEN {"hotel", "transport", "activity"}
    ELSE {}

\* position i of the order comes before one of its agent's prerequisites
TooEarly(order, i) ==
    \E d \in Prerequisites(order[i]) : ~\E j \in 1..(i - 1) : order[j] = d

\* C16: validate_completion_order accepts a completion sequence exactly when
\* every agent in it appears after all of its prerequisites, and otherwise
\* reports the first agent of the sequence whose prerequisites were not yet
\* complete.
C16_ValidateCompletionOrder ==
    call.fn = "validate_completion_order" =>
        LET order == call.order
            early == {i \in DOMAIN order : TooEarly(order, i)}
        IN /\ call_result.valid <=> early = {}
           /\ early # {} =>
                  \E i \in early : /\ \A k \in early : i <= k
                                   /\ call_result.agent = order[i]

\* a sequence of all five agents was rejected at an agent that is not its first
C16_Witness ==
    /\ call.fn = "validate_completion_order"
    /\ Len(call.order) = 5
    /\ {call.order[i] : i \in DOMAIN call.order} = GraphAgents
    /\ ~call_result.valid
    /\ call_result.agent = "itinerary"
    /\ call.order[1] # "itinerary"

\* ------------------------------------------------------------ C17
\* C17: for any limit L >= 1 and any client, within one minute bucket the
\* first L calls to check_rate_limit for that client are allowed and every
\* later call in the same bucket is rejected: the n-th call of a client in a
\* minute is allowed exactly when n is at most the limit it is made with.
C17_RateLimit ==
    call.fn = "check_rate_limit" =>
        /\ call_result.exc = ""
        /\ call_result.allowed <=> (call.nth <= call.limit)

\* in a minute after the first one, a client's call one past the largest
\* limit was rejected
C17_Witness ==
    /\ call.fn = "check_rate_limit"
    /\ now >= TicksPerMinute
    /\ call.limit = MaxLimit
    /\ call.nth = MaxLimit + 1
    /\ ~call_result.allowed

\* ------------------------------------------------------------ C18
\* C18: for a session whose budget tracker holds total T and spent S,
\* validate_expense rejects an expense with reason Insufficient budget and
\* reported remaining T-S when amount > T-S, and otherwise approves it with
\* resulting remaining T-S-amount; the tracker's spent is the same before and
\* after the validation.
C18_ValidateExpense ==
    call.fn = "validate_expense" =>
        /\ call_result.exc = ""
        /\ IF call.amount > call.total - call.spent
           THEN /\ ~call_result.approved
                /\ call_result.reason = "Insufficient budget"
                /\ call_result.remaining_budget = call.total - call.spent
           ELSE /\ call_result.approved
                /\ call_result.remaining_budget = call.total - call.spent - call.amount
        /\ call.spent_after = call.spent

\* ------------------------------------------------------------ C19
\* C19: on shutdown the launcher stops processes in reverse-dependency order:
\* every agent that declares depends_on is sent terminate (then kill if it
\* has not exited after 5 seconds) before any agent it depends on is sent
\* terminate; so when an agent is sent terminate, no agent that depends on it
\* is still running.
C19_ReverseDependencyStop ==
    \A i \in DOMAIN launcher.signals :
        launcher.signals[i].sig = "terminate" =>
            \A a \in LaunchAgents :
                launcher.signals[i].agent \in DependsOn(a) => a \notin launcher.signals[i].running

\* ------------------------------------------------------------ C20
\* the protocol rules, on the fields of a message
ViolatesProtocol(m) ==
    \/ m.sender = "" \/ m.recipient = "" \/ m.session = ""
    \/ m.type = BUDGET_VALIDATION /\ m.content.tag \in {"no_cost", "negative_cost"}
    \/ m.type = CONFLICT_ALERT /\ m.content.tag = "no_affected_agents"
    \/ m.type = HUMAN_ESCALATION /\ m.content.tag \in {"no_reason", "no_options"}

\* C20: send_message raises at the point of send, and delivers nothing, for
\* every message that violates the protocol rules (missing sender, recipient
\* or session_id; a budget validation without a non-negative cost; a conflict
\* alert without affected_agents; a human escalation without reason and
\* options): the call has raised, no pending-response entry was made, and the
\* message is in no queue and was taken by no run loop.
C20_InvalidMessageRaises ==
    \A k \in DOMAIN message_log :
        LET m == message_log[k]
        IN ViolatesProtocol(m) =>
              /\ returned[m.id] = "raised"
              /\ m.id \notin pending_responses
              /\ QueuePlaces(m.id) = {}
              /\ Holders(m.id) = {}
              /\ m.id \notin processed

\* ------------------------------------------------------------ C21
\* the stored alternatives whose total_price is within the budget
WithinBudget(alternatives, budget) ==
    {alternatives[i] : i \in {j \in DOMAIN alternatives : Price(alternatives[j]) <= budget}}

Cheapest(hotels) == CHOOSE h \in hotels : \A g \in hotels : Price(h) <= Price(g)

\* the messages the step has added to the log
NewlyLogged == {message_log'[k] : k \in (Len(message_log) + 1)..Len(message_log')}

\* C21: when the lodging agent takes a budget rejection carrying available
\* budget B for a session with a pending booking: if some stored alternative
\* has total_price <= B, the pending booking becomes the cheapest such
\* alternative and a budget-validation request for it is sent; if none
\* qualifies (also when no alternative is stored) a human escalation is sent,
\* carrying the shortfall when there is an alternative to measure it by.
C21_RejectionRetriesOrEscalates ==
    [][ \A s \in SessionIds :
          LET m == Head(message_queue["hotel"])
              B == m.content.arg
              pending == pending_bookings[s]
              within == WithinBudget(pending.alternatives, B)
          IN ( /\ pc["hotel"] = "idle"
               /\ message_queue["hotel"] # <<>>
               /\ m.type = BUDGET_REJECTION /\ m.session = s
               /\ pending.exists
               /\ m.id \notin processed /\ current["hotel"].id # m.id
               /\ m.id \in processed' \/ current'["hotel"].id = m.id )
             => IF within # {}
                THEN /\ pending_bookings'[s].booking = Cheapest(within)
                     /\ \E r \in NewlyLogged :
                           /\ r.type = BUDGET_VALIDATION /\ r.sender = "hotel"
                           /\ r.session = s /\ r.content.arg = Cheapest(within)
                ELSE \E r \in NewlyLogged :
                        /\ r.type = HUMAN_ESCALATION /\ r.sender = "hotel"
                        /\ r.session = s
                        /\ pending.alternatives # <<>> =>
                              r.content.arg = Price(Head(pending.alternatives)) - B
    ]_vars

\* ------------------------------------------------------------ C22
\* the run's stream yielded a terminal event: no step of the graph raised and
\* the structured response is present and of the response format
TerminalEventYielded ==
    /\ \A i \in DOMAIN call.items : call.items[i] # "raise"
    /\ call.structured_response = "response_format"

\* C22: the task of an executor run is marked completed only after the
\* planning loop has yielded a terminal event (is_task_complete true) derived
\* from a present structured response; a run that ends without such an event
\* is never reported as completed.
C22_CompletedOnlyAfterTerminalEvent ==
    call.fn = "invoke" =>
        ((\E i \in DOMAIN call_result.statuses : call_result.statuses[i] = "completed")
            => TerminalEventYielded)

\* ------------------------------------------------------------ C23
\* C23: the lodging agent answers a request_late_checkin modification request
\* with modification_confirmed only if the requested arrival time is not
\* later than 21:00 (standard check-in hour 15 plus 6 hours).
C23_LateCheckinThreshold ==
    \A r \in responses :
        ( /\ r.response.sender = "hotel"
          /\ r.response.content.tag = "modification_confirmed"
          /\ Logged(r.id).type = MODIFICATION_REQUEST
          /\ Logged(r.id).content.tag = "request_late_checkin" )
        => Logged(r.id).content.arg <= 21

\* ------------------------------------------------------------ C24
\* the itinerary-generation task assignments the coordinator has sent for s
\* and the router has delivered to the itinerary agent's queue
ItineraryTasks(s) ==
    {k \in DOMAIN message_log :
        /\ message_log[k].type = TASK_ASSIGNMENT
        /\ message_log[k].sender = "orchestrator"
        /\ message_log[k].recipient = "itinerary"
        /\ message_log[k].session = s
        /\ returned[message_log[k].id] # "raised"}

\* C24: within one session the coordinator sends the itinerary-generation
\* task assignment at most once, whatever number of status updates it
\* receives after the hotel and transport bookings exist.
C24_ItineraryTaskAtMostOnce ==
    \A s \in SessionIds : Cardinality(ItineraryTasks(s)) <= 1

\* ------------------------------------------------------------ C25
\* C25: while a session is awaiting human approval (the coordinator has set
\* its tracking status to awaiting_human_approval after escalating, and
\* handle_human_decision has not been called for it since), no step sends a
\* task assignment of the coordinator for that session.
C25_NoTaskWhileAwaitingHuman ==
    [][ \A s \in SessionIds :
          active_sessions[s].status = "awaiting_human_approval" =>
              ~ \E r \in NewlyLogged :
                    /\ r.type = TASK_ASSIGNMENT
                    /\ r.sender = "orchestrator"
                    /\ r.session = s
    ]_vars

\* ------------------------------------------------------------ C26
\* C26: when every caller records an amount only after validate_expense
\* approved that amount for it, the tracker's spent never exceeds its
\* total_budget, under every interleaving of the callers.
C26_SpentWithinBudget ==
    \A session_id \in DOMAIN budget_tracker :
        budget_tracker[session_id].spent <= budget_tracker[session_id].total_budget

\* ------------------------------------------------------------ C27
\* agent a is blocked in send_message on a response that only agent b can
\* produce: the message is to b, its future is still pending, and b has not
\* finished handling it
WaitsFor(a, b) ==
    /\ pc[a] = "wait"
    /\ \E id \in awaiting[a] \cap pending_responses :
          /\ Logged(id).recipient = b
          /\ id \notin processed

\* b is reached from a along the waits-for relation
RECURSIVE WaitPath(_, _, _)
WaitPath(a, b, n) ==
    \/ WaitsFor(a, b)
    \/ n > 1 /\ \E c \in RunAgents : WaitsFor(a, c) /\ WaitPath(c, b, n - 1)

\* C27: at no time is there a cycle of agents each blocked in send_message
\* awaiting a response that only the next one can produce; the one-agent
\* cycle, an agent awaiting the response to a message in its own queue while
\* it is still handling a message, included.
C27_NoWaitCycle ==
    \A a \in RunAgents : ~WaitPath(a, a, Cardinality(RunAgents))

\* ------------------------------------------------------------ C28
\* C28: for every trip request, of any duration and traveler count, the
\* analyzer's hotel, transport, activities and buffer allocations together
\* sum to no more than the available budget (total budget minus spend).
C28_AllocationsWithinAvailable ==
    call.fn = "analyze_request" =>
        LET a == call_result.allocations
        IN a.hotel_budget + a.transport_budget + a.activities_budget + a.buffer
              <= Scaled(call.total_budget - call.spent)


\* C29: for one lodging task assignment the lodging agent sends at most one
\* budget-validation request per candidate hotel (the first selection and
\* each stored alternative), whatever budget rejections arrive
TaskAssignments ==
    {k \in 1..Len(message_log) :
        message_log[k].type = TASK_ASSIGNMENT /\ message_log[k].recipient = "hotel"}

ValidationRequests(s, h) ==
    {k \in 1..Len(message_log) :
        /\ message_log[k].type = BUDGET_VALIDATION
        /\ message_log[k].sender = "hotel"
        /\ message_log[k].session = s
        /\ message_log[k].content.arg = h
        /\ returned[message_log[k].id] # "raised"}

C29_ValidationOncePerCandidate ==
    Cardinality(TaskAssignments) <= 1
        => \A s \in SessionIds, h \in Hotels : Cardinality(ValidationRequests(s, h)) <= 1


\* C30: a request that presents a refresh token as its bearer credential on
\* an endpoint that requires an access token (POST /travel/plan, GET /agents)
\* is answered with 401 and is not forwarded to the coordinator
C30_RefreshTokenOnlyAtRefresh ==
    (/\ call.fn \in {"plan_travel", "list_agents"}
     /\ call.token.payload.type = "refresh")
        => call_result.status = 401 /\ ~call_result.forwarded

====
